---- MODULE Spec2Model ----
(***************************************************************************)
(* A model of the Ravun compiler front end: the lexer (lexer/lexer.rs),    *)
(* the recursive-descent parser (parser/parser.rs), the symbol table       *)
(* (semantics/symbol_table.rs), the type relation (semantics/types.rs)     *)
(* and the semantic analyzer (semantics/analyzer.rs).                      *)
(*                                                                         *)
(* An Option<T> is a sequence of length at most one: None is << >> and     *)
(* Some(x) is << x >>.  A Result is a record with the field ok.            *)
(***************************************************************************)
EXTENDS Integers, Sequences, FiniteSets, TLC

VARIABLES
    input,        \* Lexer: the source text, a sequence of characters
    lexer,        \* Lexer: the cursor [position, line, column]
    tokens,       \* Lexer::tokenize: the token vector built so far
    lex_done,     \* Lexer::tokenize: TRUE once the loop has broken
    ptokens,      \* Parser: the token vector handed to Parser::new
    current,      \* Parser: index of current_token in ptokens (Len + 1: None)
    errors,       \* Parser: the recorded error messages
    program,      \* Parser::parse_program: the children of the Program node
    presult,      \* Parser::parse: << >> while parsing, then << result >>
    symbol_table, \* SymbolTable: [scopes, current_function, current_struct]
    table_result, \* SymbolTable: what the last call on the table returned
    ast,          \* SemanticAnalyzer::analyze: the Program node handed to it
    analyzer,     \* SemanticAnalyzer: [symbol_table, current_function_return_type,
                  \*                    errors, in_loop]
    visited,      \* visit_program: how many children have been visited
    position,     \* analyze: the call it is at
    analysis,     \* analyze: the vectors returned so far, one for each run
    report,       \* analyze_with_reports: << >>, then << [success, errors] >>
    operands,     \* types.rs: the two types [self, other] a check is called on
    type_result   \* types.rs: << >>, then << the call made and what it returned >>

lexvars == <<input, lexer, tokens, lex_done>>
parservars == <<ptokens, current, errors, program, presult>>
tablevars == <<symbol_table, table_result>>
analyzervars == <<ast, analyzer, visited, position, analysis, report>>
typevars == <<operands, type_result>>
vars ==
    <<input, lexer, tokens, lex_done, ptokens, current, errors, program, presult,
      symbol_table, table_result, ast, analyzer, visited, position, analysis,
      report, operands, type_result>>

None == << >>
Some(x) == << x >>

(***************************************************************************)
(* lexer/token.rs                                                          *)
(***************************************************************************)
TokenType ==
    { "Let", "Mut", "Const", "Fn", "Return", "If", "Else", "For", "While", "In",
      "Struct", "Impl", "Mod", "Pub", "Async", "Parallel", "Match",
      "Identifier", "IntLiteral", "FloatLiteral", "StringLiteral", "CharLiteral",
      "BoolLiteral",
      "Plus", "Minus", "Asterisk", "Slash", "Percent", "Caret",
      "Equal", "NotEqual", "Greater", "Less", "GreaterEq", "LessEq",
      "Assign", "PlusAssign", "MinusAssign", "MulAssign", "DivAssign",
      "LeftParen", "RightParen", "LeftBrace", "RightBrace", "LeftBracket",
      "RightBracket", "Semicolon", "Colon", "Comma", "Dot", "DoubleDot", "Arrow",
      "Comment", "Whitespace", "EOF", "Invalid" }

Token(token_type, lexeme, line, column) ==
    [token_type |-> token_type, lexeme |-> lexeme, line |-> line, column |-> column]

(***************************************************************************)
(* lexer/lexer.rs: character classes                                       *)
(***************************************************************************)
Letters ==
    { "a", "b", "c", "d", "e", "f", "g", "h", "i", "j", "k", "l", "m", "n", "o", "p",
      "q", "r", "s", "t", "u", "v", "w", "x", "y", "z", "A", "B", "C", "D", "E", "F",
      "G", "H", "I", "J", "K", "L", "M", "N", "O", "P", "Q", "R", "S", "T", "U", "V",
      "W", "X", "Y", "Z" }

Digits == { "0", "1", "2", "3", "4", "5", "6", "7", "8", "9" }

is_alphabetic(c) == c \in Letters
is_digit(c) == c \in Digits
is_alphanumeric(c) == c \in Letters \cup Digits
is_whitespace(c) == c \in { " ", "\n", "\t", "\r" }

(***************************************************************************)
(* lexer/lexer.rs: the cursor                                              *)
(***************************************************************************)
LexerNew == [position |-> 0, line |-> 1, column |-> 1]

peek(src, lx) ==
    IF lx.position < Len(src) THEN Some(src[lx.position + 1]) ELSE None

advance(src, lx) ==
    IF lx.position < Len(src)
    THEN IF src[lx.position + 1] = "\n"
         THEN [position |-> lx.position + 1, line |-> lx.line + 1, column |-> 1]
         ELSE [position |-> lx.position + 1, line |-> lx.line,
               column |-> lx.column + 1]
    ELSE lx

RECURSIVE skip_whitespace(_, _)
skip_whitespace(src, lx) ==
    LET p == peek(src, lx)
    IN  IF p # None /\ is_whitespace(p[1])
        THEN skip_whitespace(src, advance(src, lx))
        ELSE lx

(***************************************************************************)
(* lexer/lexer.rs: identifiers and keywords                                *)
(***************************************************************************)
keyword_type(identifier) ==
    CASE identifier = "let" -> "Let"
      [] identifier = "mut" -> "Mut"
      [] identifier = "const" -> "Const"
      [] identifier = "fn" -> "Fn"
      [] identifier = "return" -> "Return"
      [] identifier = "if" -> "If"
      [] identifier = "else" -> "Else"
      [] identifier = "for" -> "For"
      [] identifier = "while" -> "While"
      [] identifier = "in" -> "In"
      [] identifier = "struct" -> "Struct"
      [] identifier = "impl" -> "Impl"
      [] identifier = "mod" -> "Mod"
      [] identifier = "pub" -> "Pub"
      [] identifier = "async" -> "Async"
      [] identifier = "parallel" -> "Parallel"
      [] identifier = "match" -> "Match"
      [] identifier \in { "true", "false" } -> "BoolLiteral"
      [] OTHER -> "Identifier"

RECURSIVE identifier_loop(_, _, _)
identifier_loop(src, lx, identifier) ==
    LET p == peek(src, lx)
    IN  IF p # None /\ (is_alphanumeric(p[1]) \/ p[1] = "_")
        THEN identifier_loop(src, advance(src, lx), identifier \o p[1])
        ELSE [lexeme |-> identifier, lx |-> lx]

identifier(src, lx, first_char) ==
    LET start_pos == lx.column - 1
        r == identifier_loop(src, lx, first_char)
    IN  [token |-> Token(keyword_type(r.lexeme), r.lexeme, r.lx.line, start_pos),
         lx |-> r.lx]

(***************************************************************************)
(* lexer/lexer.rs: numeric literals                                        *)
(***************************************************************************)
RECURSIVE number_loop(_, _, _, _, _)
number_loop(src, lx, number, is_float, start_pos) ==
    LET p == peek(src, lx)
        done == [token |-> Token(IF is_float THEN "FloatLiteral" ELSE "IntLiteral",
                                 number, lx.line, start_pos),
                 lx |-> lx]
    IN  IF p = None THEN done
        ELSE IF is_digit(p[1])
        THEN number_loop(src, advance(src, lx), number \o p[1], is_float, start_pos)
        ELSE IF p[1] = "." /\ ~is_float
        THEN LET lx2 == advance(src, lx)
                 next == peek(src, lx2)
             IN  IF next # None /\ ~is_digit(next[1])
                 THEN [token |-> Token("Invalid", number \o p[1], lx2.line, start_pos),
                       lx |-> lx2]
                 ELSE number_loop(src, lx2, number \o p[1], TRUE, start_pos)
        ELSE done

number(src, lx, first_digit) ==
    number_loop(src, lx, first_digit, FALSE, lx.column - 1)

(***************************************************************************)
(* lexer/lexer.rs: string literals                                         *)
(***************************************************************************)
escape(c) ==
    CASE c = "n" -> "\n"
      [] c = "t" -> "\t"
      [] c = "r" -> "\r"
      [] c = "\\" -> "\\"
      [] c = "\"" -> "\""
      [] OTHER -> "\\" \o c

RECURSIVE string_loop(_, _, _, _, _)
string_loop(src, lx, str, escaped, start_pos) ==
    LET p == peek(src, lx)
        lx2 == advance(src, lx)
    IN  IF p = None
        THEN [token |-> Token("Invalid", str, lx.line, start_pos), lx |-> lx]
        ELSE IF escaped
        THEN string_loop(src, lx2, str \o escape(p[1]), FALSE, start_pos)
        ELSE IF p[1] = "\\"
        THEN string_loop(src, lx2, str, TRUE, start_pos)
        ELSE IF p[1] = "\""
        THEN [token |-> Token("StringLiteral", str, lx2.line, start_pos), lx |-> lx2]
        ELSE string_loop(src, lx2, str \o p[1], FALSE, start_pos)

string(src, lx) == string_loop(src, lx, "", FALSE, lx.column - 1)

(***************************************************************************)
(* lexer/lexer.rs: comments and the division operator                      *)
(***************************************************************************)
RECURSIVE line_comment_loop(_, _, _)
line_comment_loop(src, lx, comment) ==
    LET p == peek(src, lx)
        lx2 == advance(src, lx)
    IN  IF p = None THEN [lexeme |-> comment, lx |-> lx]
        ELSE IF p[1] = "\n" THEN [lexeme |-> comment \o p[1], lx |-> lx2]
        ELSE line_comment_loop(src, lx2, comment \o p[1])

RECURSIVE block_comment_loop(_, _, _, _)
block_comment_loop(src, lx, comment, prev_char) ==
    LET p == peek(src, lx)
        lx2 == advance(src, lx)
    IN  IF p = None THEN [lexeme |-> comment, lx |-> lx]
        ELSE IF prev_char = "*" /\ p[1] = "/"
        THEN [lexeme |-> comment \o p[1], lx |-> lx2]
        ELSE block_comment_loop(src, lx2, comment \o p[1], p[1])

comment(src, lx) ==
    LET start_pos == lx.column - 1
        next == peek(src, lx)
        slash == [token |-> Token("Slash", "/", lx.line, start_pos), lx |-> lx]
    IN  IF next = None THEN slash
        ELSE IF next[1] = "/"
        THEN LET r == line_comment_loop(src, advance(src, lx), "//")
             IN  [token |-> Token("Comment", r.lexeme, r.lx.line, start_pos),
                  lx |-> r.lx]
        ELSE IF next[1] = "*"
        THEN LET r == block_comment_loop(src, advance(src, lx), "/*", "")
             IN  [token |-> Token("Comment", r.lexeme, r.lx.line, start_pos),
                  lx |-> r.lx]
        ELSE slash

(***************************************************************************)
(* lexer/lexer.rs: next_token                                              *)
(***************************************************************************)
\* An operator character c that forms a two-character token with `second`
\* (token type tt2) and otherwise stands alone (token type tt1).
lookahead(src, lx, c, second, tt2, tt1) ==
    LET start_pos == lx.column - 1
        next == peek(src, lx)
    IN  IF next # None /\ next[1] = second
        THEN [token |-> Token(tt2, c \o second, lx.line, start_pos),
              lx |-> advance(src, lx)]
        ELSE [token |-> Token(tt1, c, lx.line, start_pos), lx |-> lx]

single_unconsumed(lx, tt, c) ==
    [token |-> Token(tt, c, lx.line, lx.column - 1),
     lx |-> [lx EXCEPT !.position = @ - 1, !.column = @ - 1]]

single(lx, tt, c) == [token |-> Token(tt, c, lx.line, lx.column - 1), lx |-> lx]

minus(src, lx) ==
    LET next == peek(src, lx)
    IN  IF next # None /\ next[1] = ">"
        THEN [token |-> Token("Arrow", "->", lx.line, lx.column - 1),
              lx |-> advance(src, lx)]
        ELSE lookahead(src, lx, "-", "=", "MinusAssign", "Minus")

next_token(src, lx0) ==
    LET lx1 == skip_whitespace(src, lx0)
        p == peek(src, lx1)
        lx == advance(src, lx1)
        c == p[1]
    IN  IF p = None
        THEN [token |-> Token("EOF", "", lx1.line, lx1.column), lx |-> lx1]
        ELSE CASE is_alphabetic(c) \/ c = "_" -> identifier(src, lx, c)
               [] is_digit(c) -> number(src, lx, c)
               [] c = "\"" -> string(src, lx)
               [] c = "/" -> comment(src, lx)
               [] c = "+" -> lookahead(src, lx, c, "=", "PlusAssign", "Plus")
               [] c = "-" -> minus(src, lx)
               [] c = "*" -> lookahead(src, lx, c, "=", "MulAssign", "Asterisk")
               [] c = "%" -> single(lx, "Percent", c)
               [] c = "^" -> single(lx, "Caret", c)
               [] c = "=" -> lookahead(src, lx, c, "=", "Equal", "Assign")
               [] c = "!" -> lookahead(src, lx, c, "=", "NotEqual", "Invalid")
               [] c = ">" -> lookahead(src, lx, c, "=", "GreaterEq", "Greater")
               [] c = "<" -> lookahead(src, lx, c, "=", "LessEq", "Less")
               [] c = "(" -> single(lx, "LeftParen", c)
               [] c = ")" -> single(lx, "RightParen", c)
               [] c = "{" -> single(lx, "LeftBrace", c)
               [] c = "}" -> single(lx, "RightBrace", c)
               [] c = "[" -> single(lx, "LeftBracket", c)
               [] c = "]" -> single(lx, "RightBracket", c)
               [] c = ";" -> single(lx, "Semicolon", c)
               [] c = ":" -> single(lx, "Colon", c)
               [] c = "," -> single(lx, "Comma", c)
               [] c = "." -> lookahead(src, lx, c, ".", "DoubleDot", "Dot")
               [] OTHER -> single(lx, "Invalid", c)

(***************************************************************************)
(* lexer/lexer.rs: tokenize, one action per way round its loop             *)
(***************************************************************************)
tokenize_keeps_all(token) == TRUE

tokenize_keeps(token) ==
    token.token_type # "Comment" /\ token.token_type # "Whitespace"

\* The call of next_token returned EOF: the token is pushed and the loop breaks.
TokenizeEOF ==
    /\ ~lex_done
    /\ LET r == next_token(input, lexer)
       IN  /\ r.token.token_type = "EOF"
           /\ tokens' = Append(tokens, r.token)
           /\ lexer' = r.lx
           /\ lex_done' = TRUE
    /\ UNCHANGED <<input, parservars, tablevars, analyzervars, typevars>>

\* The call of next_token returned a token that tokenize keeps.
TokenizePush ==
    /\ ~lex_done
    /\ LET r == next_token(input, lexer)
       IN  /\ r.token.token_type # "EOF"
           /\ tokenize_keeps(r.token)
           /\ tokens' = Append(tokens, r.token)
           /\ lexer' = r.lx
    /\ UNCHANGED <<input, lex_done, parservars, tablevars, analyzervars, typevars>>

\* The call of next_token returned a Comment (or Whitespace) token: dropped.
TokenizeDrop ==
    /\ ~lex_done
    /\ LET r == next_token(input, lexer)
       IN  /\ r.token.token_type # "EOF"
           /\ ~tokenize_keeps(r.token)
           /\ lexer' = r.lx
    /\ UNCHANGED <<input, tokens, lex_done, parservars, tablevars,
                   analyzervars, typevars>>

(***************************************************************************)
(* The sources the lexer is run on: every text of at most MaxLen           *)
(* characters over LexChars, and two longer texts that between them use    *)
(* every keyword-free branch of next_token.                                *)
(***************************************************************************)
MaxLen == 4

LexChars == { "a", "1", ".", "/", "*", "\n", "\"", "\\", "!" }

LexSamples ==
    { << "l", "e", "t", " ", "m", "u", "t", " ", "x", ":", " ", "i", "n", "t", " ",
         "=", " ", "5", " ", "+", " ", "3", ";" >>,
      << "a", "+", "=", "b", "-", "=", "c", "*", "=", "d", "-", ">", "e", "%", "f",
         "^", "g", "(", "h", ")", "{", "i", "}", "[", "j", "]", ",", "k", "<", "l",
         "<", "=", "m", ">", "n", ">", "=", "o", ".", "p", ".", ".", "_", "q", "\t",
         "-", "x", "+", "y", "*", "z", "/", "2", ".", "5", "\r", "\"", "s", "\\",
         "n", "\"", "<" >> }

LexInputs == UNION { [1..n -> LexChars] : n \in 0..MaxLen } \cup LexSamples

ParserIdle ==
    /\ ptokens = << >>
    /\ current = 1
    /\ errors = << >>
    /\ program = << >>
    /\ presult = None

\* No symbol table has been constructed on its own.
TableIdle ==
    /\ symbol_table = None
    /\ table_result = None

\* No analyzer has been constructed.
AnalyzerIdle ==
    /\ ast = None
    /\ analyzer = None
    /\ visited = 0
    /\ position = "idle"
    /\ analysis = None
    /\ report = None

TypesIdle ==
    /\ operands = None
    /\ type_result = None

SemanticsIdle == TableIdle /\ AnalyzerIdle /\ TypesIdle

InitLex ==
    /\ input \in LexInputs
    /\ lexer = LexerNew
    /\ tokens = << >>
    /\ lex_done = FALSE
    /\ ParserIdle
    /\ SemanticsIdle

NextLex == TokenizeEOF \/ TokenizePush \/ TokenizeDrop

SpecLex == InitLex /\ [][NextLex]_vars

(***************************************************************************)
(* parser/ast.rs: AstNode (line and column repeat the token's; the payload  *)
(* `kind` is never set by the parser)                                      *)
(***************************************************************************)
AstNode(node_type, token) ==
    [node_type |-> node_type, token |-> token, children |-> << >>,
     value |-> None, metadata |-> None]

add_child(node, child) == [node EXCEPT !.children = Append(@, child)]
set_value(node, value) == [node EXCEPT !.value = Some(value)]
set_metadata(node, metadata) == [node EXCEPT !.metadata = Some(metadata)]

RECURSIVE add_children(_, _)
add_children(node, nodes) ==
    IF nodes = << >> THEN node
    ELSE add_children(add_child(node, Head(nodes)), Tail(nodes))

(***************************************************************************)
(* parser/parser.rs: the cursor.  A parse function takes the token vector  *)
(* and the index of current_token and returns Ok(node, cursor) or          *)
(* Err(message, cursor): the `?` operator hands an Err up unchanged, with  *)
(* the cursor left where the failure happened.                             *)
(***************************************************************************)
Ok(node, cur) == [ok |-> TRUE, node |-> node, cur |-> cur]
Err(err, cur) == [ok |-> FALSE, err |-> err, cur |-> cur]

\* The error strings of the parser, by their variable parts.
ParseError(msg, expected, found, line, column) ==
    [msg |-> msg, expected |-> expected, found |-> found, line |-> line,
     column |-> column]

UnexpectedEndOfFile == ParseError("Beklenmeyen dosya sonu", "", "", 0, 0)

current_token(toks, cur) == IF cur <= Len(toks) THEN Some(toks[cur]) ELSE None

check(toks, cur, expected_type) ==
    cur <= Len(toks) /\ toks[cur].token_type = expected_type

consume(toks, cur, expected_type) ==
    IF cur <= Len(toks)
    THEN IF toks[cur].token_type = expected_type
         THEN Ok(toks[cur], cur + 1)
         ELSE Err(ParseError("Beklenen token tipi", expected_type,
                             toks[cur].token_type, toks[cur].line, toks[cur].column),
                  cur)
    ELSE Err(ParseError("Beklenen token tipi, dosya sonu bulundu", expected_type,
                        "", 0, 0), cur)

RECURSIVE parse_declaration(_, _), parse_statement(_, _), parse_block_statement(_, _),
          parse_function_declaration(_, _), parse_expression(_, _),
          parse_assignment(_, _), parse_unary(_, _), parse_primary(_, _)

(***************************************************************************)
(* parser/parser.rs: expressions                                           *)
(***************************************************************************)
AssignOps == { "Assign", "PlusAssign", "MinusAssign", "MulAssign", "DivAssign" }

\* The binary levels with term and factor exchanged.
LevelOps_term_factor_swapped(level) ==
    CASE level = "equality" -> { "Equal", "NotEqual" }
      [] level = "comparison" -> { "Greater", "GreaterEq", "Less", "LessEq" }
      [] level = "term" -> { "Asterisk", "Slash", "Percent" }
      [] level = "factor" -> { "Plus", "Minus" }
      [] level = "power" -> { "Caret" }

\* The operator tokens each binary level of the grammar loops on.
LevelOps(level) ==
    CASE level = "equality" -> { "Equal", "NotEqual" }
      [] level = "comparison" -> { "Greater", "GreaterEq", "Less", "LessEq" }
      [] level = "term" -> { "Plus", "Minus" }
      [] level = "factor" -> { "Asterisk", "Slash", "Percent" }
      [] level = "power" -> { "Caret" }

\* The text set_value stores in the operator's node.
operator_value(token_type) ==
    CASE token_type = "Assign" -> "="
      [] token_type = "PlusAssign" -> "+="
      [] token_type = "MinusAssign" -> "-="
      [] token_type = "MulAssign" -> "*="
      [] token_type = "DivAssign" -> "/="
      [] token_type = "Equal" -> "=="
      [] token_type = "NotEqual" -> "!="
      [] token_type = "Greater" -> ">"
      [] token_type = "GreaterEq" -> ">="
      [] token_type = "Less" -> "<"
      [] token_type = "LessEq" -> "<="
      [] token_type = "Plus" -> "+"
      [] token_type = "Minus" -> "-"
      [] token_type = "Asterisk" -> "*"
      [] token_type = "Slash" -> "/"
      [] token_type = "Percent" -> "%"
      [] token_type = "Caret" -> "^"

binary_expr(operator, left, right) ==
    add_child(add_child(set_value(AstNode("BinaryExpr", Some(operator)),
                                  operator_value(operator.token_type)),
                        left),
              right)

\* `let x = e;` of the source: x names the one value of e.
Only(S) == CHOOSE x \in S : TRUE

RECURSIVE parse_call_arguments(_, _, _)
parse_call_arguments(toks, cur, arguments) ==
    Only({ IF ~arg.ok THEN arg
           ELSE IF check(toks, arg.cur, "Comma")
           THEN parse_call_arguments(toks, arg.cur + 1, Append(arguments, arg.node))
           ELSE Ok(Append(arguments, arg.node), arg.cur)
         : arg \in { parse_expression(toks, cur) } })

parse_call_expr(toks, cur, name) ==
    Only({ IF ~open.ok THEN open ELSE
    Only({ IF ~arguments.ok THEN arguments ELSE
    Only({ IF ~close.ok THEN close ELSE
           Ok(add_children(set_value(AstNode("CallExpr", Some(name)), name.lexeme),
                           arguments.node),
              close.cur)
         : close \in { consume(toks, arguments.cur, "RightParen") } })
         : arguments \in { IF check(toks, open.cur, "RightParen")
                           THEN Ok(<< >>, open.cur)
                           ELSE parse_call_arguments(toks, open.cur, << >>) } })
         : open \in { consume(toks, cur, "LeftParen") } })

parse_group_expr(toks, cur) ==
    Only({ IF ~expr.ok THEN expr ELSE
    Only({ IF ~close.ok THEN close ELSE
           Ok(add_child(AstNode("GroupExpr", None), expr.node), close.cur)
         : close \in { consume(toks, expr.cur, "RightParen") } })
         : expr \in { parse_expression(toks, cur + 1) } })

parse_primary(toks, cur) ==
    IF cur > Len(toks) THEN Err(UnexpectedEndOfFile, cur)
    ELSE LET token == toks[cur]
         IN  CASE token.token_type \in { "IntLiteral", "FloatLiteral", "StringLiteral",
                                          "BoolLiteral" }
                    -> Ok(set_value(AstNode("LiteralExpr", Some(token)), token.lexeme),
                          cur + 1)
               [] token.token_type = "Identifier"
                    -> IF check(toks, cur + 1, "LeftParen")
                       THEN parse_call_expr(toks, cur + 1, token)
                       ELSE Ok(set_value(AstNode("IdentifierExpr", Some(token)),
                                         token.lexeme),
                               cur + 1)
               [] token.token_type = "LeftParen" -> parse_group_expr(toks, cur)
               [] OTHER
                    -> Err(ParseError("Beklenmeyen token", "", token.token_type,
                                      token.line, token.column), cur)

\* A binary level: its first operand, then the `while let Some(token)` loop.
RECURSIVE binary_loop(_, _, _, _)
binary_level(toks, left, level) ==
    IF ~left.ok THEN left ELSE binary_loop(toks, left.node, left.cur, level)

parse_power(toks, cur) == binary_level(toks, parse_primary(toks, cur), "power")

unary_expr(operator, right) ==
    IF ~right.ok THEN right
    ELSE Ok(add_child(set_value(AstNode("UnaryExpr", Some(operator)), "-"), right.node),
            right.cur)

parse_unary(toks, cur) ==
    IF check(toks, cur, "Minus")
    THEN unary_expr(toks[cur], parse_unary(toks, cur + 1))
    ELSE parse_power(toks, cur)

parse_factor(toks, cur) == binary_level(toks, parse_unary(toks, cur), "factor")

parse_term(toks, cur) == binary_level(toks, parse_factor(toks, cur), "term")

parse_comparison(toks, cur) == binary_level(toks, parse_term(toks, cur), "comparison")

parse_equality(toks, cur) ==
    binary_level(toks, parse_comparison(toks, cur), "equality")

\* The operand of a binary level: the next level down.
parse_operand(toks, cur, level) ==
    CASE level = "equality" -> parse_comparison(toks, cur)
      [] level = "comparison" -> parse_term(toks, cur)
      [] level = "term" -> parse_factor(toks, cur)
      [] level = "factor" -> parse_unary(toks, cur)
      [] level = "power" -> parse_primary(toks, cur)

binary_loop(toks, expr, cur, level) ==
    IF cur <= Len(toks) /\ toks[cur].token_type \in LevelOps(level)
    THEN Only({ IF ~right.ok THEN right
                ELSE binary_loop(toks, binary_expr(toks[cur], expr, right.node),
                                 right.cur, level)
              : right \in { parse_operand(toks, cur + 1, level) } })
    ELSE Ok(expr, cur)

\* An assignment that accepts any left-hand side.
is_assignment_target_any(expr) == TRUE

is_assignment_target(expr) ==
    expr.node_type \in { "IdentifierExpr", "MemberExpr", "IndexExpr" }

assignment_expr(operator, expr, value) ==
    IF ~value.ok THEN value
    ELSE IF is_assignment_target(expr.node)
    THEN Ok(binary_expr(operator, expr.node, value.node), value.cur)
    ELSE Err(ParseError("Gecersiz atama hedefi", "", "", operator.line,
                        operator.column), value.cur)

parse_assignment(toks, cur) ==
    Only({ IF ~expr.ok THEN expr
           ELSE IF expr.cur <= Len(toks) /\ toks[expr.cur].token_type \in AssignOps
           THEN assignment_expr(toks[expr.cur], expr,
                                parse_assignment(toks, expr.cur + 1))
           ELSE expr
         : expr \in { parse_equality(toks, cur) } })

parse_expression(toks, cur) == parse_assignment(toks, cur)

(***************************************************************************)
(* parser/parser.rs: statements                                            *)
(***************************************************************************)
parse_type_annotation(toks, cur) ==
    Only({ IF ~type_name.ok THEN type_name
           ELSE Ok(set_value(AstNode("TypeAnnotation", Some(type_name.node)),
                             type_name.node.lexeme),
                   type_name.cur)
         : type_name \in { consume(toks, cur, "Identifier") } })

parse_expression_statement(toks, cur) ==
    Only({ IF ~expression.ok THEN expression ELSE
    Only({ IF ~semi.ok THEN semi ELSE
           Ok(add_child(AstNode("ExprStmt", None), expression.node), semi.cur)
         : semi \in { consume(toks, expression.cur, "Semicolon") } })
         : expression \in { parse_expression(toks, cur) } })

\* A block that recovers by itself: a statement that fails is dropped and the
\* block goes on after the token the failure was met at.
RECURSIVE parse_block_statements_skipping(_, _, _)
parse_block_statements_skipping(toks, cur, statements) ==
    IF ~check(toks, cur, "RightBrace") /\ cur <= Len(toks)
    THEN Only({ IF ~statement.ok
                THEN parse_block_statements_skipping(toks, statement.cur + 1, statements)
                ELSE parse_block_statements_skipping(toks, statement.cur,
                                                     Append(statements, statement.node))
              : statement \in { parse_declaration(toks, cur) } })
    ELSE Ok(statements, cur)

RECURSIVE parse_block_statements(_, _, _)
parse_block_statements(toks, cur, statements) ==
    IF ~check(toks, cur, "RightBrace") /\ cur <= Len(toks)
    THEN Only({ IF ~statement.ok THEN statement
                ELSE parse_block_statements(toks, statement.cur,
                                            Append(statements, statement.node))
              : statement \in { parse_declaration(toks, cur) } })
    ELSE Ok(statements, cur)

parse_block_statement(toks, cur) ==
    Only({ IF ~brace.ok THEN brace ELSE
    Only({ IF ~statements.ok THEN statements ELSE
    Only({ IF ~close.ok THEN close ELSE
           Ok(add_children(AstNode("BlockStmt", Some(brace.node)), statements.node),
              close.cur)
         : close \in { consume(toks, statements.cur, "RightBrace") } })
         : statements \in { parse_block_statements(toks, brace.cur, << >>) } })
         : brace \in { consume(toks, cur, "LeftBrace") } })

\* The `else` part of an if statement: `else if ...` or `else { ... }`.
RECURSIVE parse_if_statement(_, _)
parse_else_branch(toks, cur, if_stmt) ==
    IF ~check(toks, cur, "Else") THEN Ok(if_stmt, cur)
    ELSE Only({ IF ~else_branch.ok THEN else_branch
                ELSE Ok(add_child(if_stmt, else_branch.node), else_branch.cur)
              : else_branch \in { IF check(toks, cur + 1, "If")
                                  THEN parse_if_statement(toks, cur + 1)
                                  ELSE parse_block_statement(toks, cur + 1) } })

parse_if_statement(toks, cur) ==
    Only({ IF ~if_token.ok THEN if_token ELSE
    Only({ IF ~condition.ok THEN condition ELSE
    Only({ IF ~then_branch.ok THEN then_branch ELSE
           parse_else_branch(toks, then_branch.cur,
                             add_child(add_child(AstNode("IfStmt", Some(if_token.node)),
                                                 condition.node),
                                       then_branch.node))
         : then_branch \in { parse_block_statement(toks, condition.cur) } })
         : condition \in { parse_expression(toks, if_token.cur) } })
         : if_token \in { consume(toks, cur, "If") } })

parse_while_statement(toks, cur) ==
    Only({ IF ~while_token.ok THEN while_token ELSE
    Only({ IF ~condition.ok THEN condition ELSE
    Only({ IF ~body.ok THEN body ELSE
           Ok(add_child(add_child(AstNode("WhileStmt", Some(while_token.node)),
                                  condition.node),
                        body.node),
              body.cur)
         : body \in { parse_block_statement(toks, condition.cur) } })
         : condition \in { parse_expression(toks, while_token.cur) } })
         : while_token \in { consume(toks, cur, "While") } })

parse_for_statement(toks, cur) ==
    Only({ IF ~for_token.ok THEN for_token ELSE
    Only({ IF ~variable.ok THEN variable ELSE
    Only({ IF ~in_token.ok THEN in_token ELSE
    Only({ IF ~range.ok THEN range ELSE
    Only({ IF ~body.ok THEN body ELSE
           Ok(add_children(AstNode("ForStmt", Some(for_token.node)),
                           << set_value(AstNode("IdentifierExpr", Some(variable.node)),
                                        variable.node.lexeme),
                              range.node, body.node >>),
              body.cur)
         : body \in { parse_block_statement(toks, range.cur) } })
         : range \in { parse_expression(toks, in_token.cur) } })
         : in_token \in { consume(toks, variable.cur, "In") } })
         : variable \in { consume(toks, for_token.cur, "Identifier") } })
         : for_token \in { consume(toks, cur, "For") } })

parse_return_statement(toks, cur) ==
    Only({ IF ~return_token.ok THEN return_token ELSE
    Only({ IF ~value.ok THEN value ELSE
    Only({ IF ~semi.ok THEN semi ELSE
           Ok(IF value.node = None
              THEN AstNode("ReturnStmt", Some(return_token.node))
              ELSE add_child(AstNode("ReturnStmt", Some(return_token.node)),
                             value.node[1]),
              semi.cur)
         : semi \in { consume(toks, value.cur, "Semicolon") } })
         : value \in { IF check(toks, return_token.cur, "Semicolon")
                       THEN Ok(None, return_token.cur)
                       ELSE Only({ IF ~expr.ok THEN expr
                                   ELSE Ok(Some(expr.node), expr.cur)
                                 : expr \in { parse_expression(toks,
                                                               return_token.cur) } }) } })
         : return_token \in { consume(toks, cur, "Return") } })

parse_statement(toks, cur) ==
    IF cur > Len(toks) THEN Err(UnexpectedEndOfFile, cur)
    ELSE CASE toks[cur].token_type = "If" -> parse_if_statement(toks, cur)
           [] toks[cur].token_type = "While" -> parse_while_statement(toks, cur)
           [] toks[cur].token_type = "For" -> parse_for_statement(toks, cur)
           [] toks[cur].token_type = "Return" -> parse_return_statement(toks, cur)
           [] toks[cur].token_type = "LeftBrace" -> parse_block_statement(toks, cur)
           [] OTHER -> parse_expression_statement(toks, cur)

(***************************************************************************)
(* parser/parser.rs: declarations                                          *)
(***************************************************************************)
\* The VarDecl node before its initializer is added: name, `mut` mark, type.
var_decl_node(let_token, name, is_mutable, type_annotation) ==
    LET named == set_value(AstNode("VarDecl", Some(let_token)), name.lexeme)
        marked == IF is_mutable THEN set_metadata(named, "mutable") ELSE named
    IN  IF type_annotation = None THEN marked
        ELSE add_child(marked, type_annotation[1])

\* An optional type annotation after the token `mark` (`:` or `->`).
parse_optional_type(toks, cur, mark) ==
    IF ~check(toks, cur, mark) THEN Ok(None, cur)
    ELSE Only({ IF ~annotation.ok THEN annotation
                ELSE Ok(Some(annotation.node), annotation.cur)
              : annotation \in { parse_type_annotation(toks, cur + 1) } })

parse_var_declaration(toks, cur) ==
    Only({ IF ~let_token.ok THEN let_token ELSE
    Only({ IF ~name.ok THEN name ELSE
    Only({ IF ~type_annotation.ok THEN type_annotation ELSE
    Only({ IF ~assign.ok THEN assign ELSE
    Only({ IF ~initializer.ok THEN initializer ELSE
    Only({ IF ~semi.ok THEN semi ELSE
           Ok(add_child(var_decl_node(let_token.node, name.node,
                                      check(toks, let_token.cur, "Mut"),
                                      type_annotation.node),
                        initializer.node),
              semi.cur)
         : semi \in { consume(toks, initializer.cur, "Semicolon") } })
         : initializer \in { parse_expression(toks, assign.cur) } })
         : assign \in { consume(toks, type_annotation.cur, "Assign") } })
         : type_annotation \in { parse_optional_type(toks, name.cur, "Colon") } })
         : name \in { consume(toks, IF check(toks, let_token.cur, "Mut")
                                    THEN let_token.cur + 1 ELSE let_token.cur,
                              "Identifier") } })
         : let_token \in { consume(toks, cur, "Let") } })

RECURSIVE parse_parameters_loop(_, _, _)
parse_parameters_loop(toks, cur, parameters) ==
    Only({ IF ~param_name.ok THEN param_name ELSE
    Only({ IF ~colon.ok THEN colon ELSE
    Only({ IF ~param_type.ok THEN param_type ELSE
    Only({ IF check(toks, param_type.cur, "Comma")
           THEN parse_parameters_loop(toks, param_type.cur + 1,
                                      Append(parameters, param))
           ELSE Ok(Append(parameters, param), param_type.cur)
         : param \in { add_child(set_value(AstNode("ParamDecl", Some(param_name.node)),
                                           param_name.node.lexeme),
                                 param_type.node) } })
         : param_type \in { parse_type_annotation(toks, colon.cur) } })
         : colon \in { consume(toks, param_name.cur, "Colon") } })
         : param_name \in { consume(toks, cur, "Identifier") } })

parse_parameters(toks, cur) ==
    IF check(toks, cur, "RightParen") THEN Ok(<< >>, cur)
    ELSE parse_parameters_loop(toks, cur, << >>)

\* The FuncDecl node before its body is added: name, parameters, return type.
func_decl_node(fn_token, name, parameters, return_type) ==
    LET with_params == add_children(set_value(AstNode("FuncDecl", Some(fn_token)),
                                              name.lexeme),
                                    parameters)
    IN  IF return_type = None THEN with_params
        ELSE add_child(with_params, return_type[1])

parse_function_declaration(toks, cur) ==
    Only({ IF ~fn_token.ok THEN fn_token ELSE
    Only({ IF ~name.ok THEN name ELSE
    Only({ IF ~open.ok THEN open ELSE
    Only({ IF ~parameters.ok THEN parameters ELSE
    Only({ IF ~close.ok THEN close ELSE
    Only({ IF ~return_type.ok THEN return_type ELSE
    Only({ IF ~body.ok THEN body ELSE
           Ok(add_child(func_decl_node(fn_token.node, name.node, parameters.node,
                                       return_type.node),
                        body.node),
              body.cur)
         : body \in { parse_block_statement(toks, return_type.cur) } })
         : return_type \in { parse_optional_type(toks, close.cur, "Arrow") } })
         : close \in { consume(toks, parameters.cur, "RightParen") } })
         : parameters \in { parse_parameters(toks, open.cur) } })
         : open \in { consume(toks, name.cur, "LeftParen") } })
         : name \in { consume(toks, fn_token.cur, "Identifier") } })
         : fn_token \in { consume(toks, cur, "Fn") } })

RECURSIVE parse_struct_fields_loop(_, _, _)
parse_struct_fields_loop(toks, cur, fields) ==
    Only({ IF ~field_name.ok THEN field_name ELSE
    Only({ IF ~colon.ok THEN colon ELSE
    Only({ IF ~field_type.ok THEN field_type ELSE
    Only({ IF ~comma.ok THEN comma ELSE
    Only({ IF check(toks, comma.cur, "RightBrace")
           THEN Ok(Append(fields, field), comma.cur)
           ELSE parse_struct_fields_loop(toks, comma.cur, Append(fields, field))
         : field \in { add_child(set_value(AstNode("VarDecl", Some(field_name.node)),
                                           field_name.node.lexeme),
                                 field_type.node) } })
         : comma \in { consume(toks, field_type.cur, "Comma") } })
         : field_type \in { parse_type_annotation(toks, colon.cur) } })
         : colon \in { consume(toks, field_name.cur, "Colon") } })
         : field_name \in { consume(toks, cur, "Identifier") } })

parse_struct_fields(toks, cur) ==
    IF check(toks, cur, "RightBrace") THEN Ok(<< >>, cur)
    ELSE parse_struct_fields_loop(toks, cur, << >>)

RECURSIVE parse_impl_methods(_, _, _)
parse_impl_methods(toks, cur, methods) ==
    IF check(toks, cur, "RightBrace") THEN Ok(methods, cur)
    ELSE Only({ IF ~method.ok THEN method
                ELSE parse_impl_methods(toks, method.cur,
                                        Append(methods, method.node))
              : method \in { parse_function_declaration(toks, cur) } })

RECURSIVE parse_module_declarations(_, _, _)
parse_module_declarations(toks, cur, declarations) ==
    IF check(toks, cur, "RightBrace") THEN Ok(declarations, cur)
    ELSE Only({ IF ~declaration.ok THEN declaration
                ELSE parse_module_declarations(toks, declaration.cur,
                                               Append(declarations, declaration.node))
              : declaration \in { parse_declaration(toks, cur) } })

\* struct, impl and mod declarations: keyword, name, `{`, members, `}`.
parse_braced_declaration(toks, cur, keyword, node_type) ==
    Only({ IF ~keyword_token.ok THEN keyword_token ELSE
    Only({ IF ~name.ok THEN name ELSE
    Only({ IF ~open.ok THEN open ELSE
    Only({ IF ~members.ok THEN members ELSE
    Only({ IF ~close.ok THEN close ELSE
           Ok(add_children(set_value(AstNode(node_type, Some(keyword_token.node)),
                                     name.node.lexeme),
                           members.node),
              close.cur)
         : close \in { consume(toks, members.cur, "RightBrace") } })
         : members \in { CASE keyword = "Struct" -> parse_struct_fields(toks, open.cur)
                           [] keyword = "Impl"
                                -> parse_impl_methods(toks, open.cur, << >>)
                           [] keyword = "Mod"
                                -> parse_module_declarations(toks, open.cur, << >>) } })
         : open \in { consume(toks, name.cur, "LeftBrace") } })
         : name \in { consume(toks, keyword_token.cur, "Identifier") } })
         : keyword_token \in { consume(toks, cur, keyword) } })

parse_struct_declaration(toks, cur) ==
    parse_braced_declaration(toks, cur, "Struct", "StructDecl")

parse_impl_declaration(toks, cur) ==
    parse_braced_declaration(toks, cur, "Impl", "ImplDecl")

parse_module_declaration(toks, cur) ==
    parse_braced_declaration(toks, cur, "Mod", "ModDecl")

parse_declaration(toks, cur) ==
    IF cur > Len(toks) THEN Err(UnexpectedEndOfFile, cur)
    ELSE CASE toks[cur].token_type = "Let" -> parse_var_declaration(toks, cur)
           [] toks[cur].token_type = "Fn" -> parse_function_declaration(toks, cur)
           [] toks[cur].token_type = "Struct" -> parse_struct_declaration(toks, cur)
           [] toks[cur].token_type = "Impl" -> parse_impl_declaration(toks, cur)
           [] toks[cur].token_type = "Mod" -> parse_module_declaration(toks, cur)
           [] OTHER -> parse_statement(toks, cur)

(***************************************************************************)
(* parser/parser.rs: synchronize, parse_program and parse                  *)
(***************************************************************************)
SyncKeywords ==
    { "Let", "Fn", "For", "If", "While", "Return", "Struct", "Impl", "Mod" }

\* A synchronize that stops only after a `;`, running over declaration keywords.
RECURSIVE synchronize_past_keywords(_, _)
synchronize_past_keywords(toks, cur) ==
    IF cur > Len(toks) THEN cur
    ELSE IF toks[cur].token_type = "Semicolon" THEN cur + 1
    ELSE synchronize_past_keywords(toks, cur + 1)

\* A synchronize that leaves the `;` it stops at in place.
RECURSIVE synchronize_before_semicolon(_, _)
synchronize_before_semicolon(toks, cur) ==
    IF cur > Len(toks) THEN cur
    ELSE IF toks[cur].token_type = "Semicolon" THEN cur
    ELSE IF toks[cur].token_type \in SyncKeywords THEN cur
    ELSE synchronize_before_semicolon(toks, cur + 1)

RECURSIVE synchronize(_, _)
synchronize(toks, cur) ==
    IF cur > Len(toks) THEN cur
    ELSE IF toks[cur].token_type = "Semicolon" THEN cur + 1
    ELSE IF toks[cur].token_type \in SyncKeywords THEN cur
    ELSE synchronize(toks, cur + 1)

\* A parse that hands back the Program node whatever was recorded.
parse_result_ignoring_errors(errs, children) ==
    [ok |-> TRUE, node |-> add_children(AstNode("Program", None), children)]

\* What Parser::parse returns once parse_program has returned.
parse_result(errs, children) ==
    IF errs # << >> THEN [ok |-> FALSE, errors |-> errs]
    ELSE [ok |-> TRUE, node |-> add_children(AstNode("Program", None), children)]

\* One turn of the parse_program loop in which parse_declaration returns Ok.
ParseDeclaration ==
    /\ presult = None
    /\ current <= Len(ptokens)
    /\ \E declaration \in { parse_declaration(ptokens, current) } :
          /\ declaration.ok
          /\ program' = Append(program, declaration.node)
          /\ current' = declaration.cur
    /\ UNCHANGED <<ptokens, errors, presult, lexvars, tablevars, analyzervars,
                   typevars>>

\* One turn of the parse_program loop in which parse_declaration returns Err:
\* the error is recorded and the parser synchronizes.
ParseRecover ==
    /\ presult = None
    /\ current <= Len(ptokens)
    /\ \E declaration \in { parse_declaration(ptokens, current) } :
          /\ ~declaration.ok
          /\ errors' = Append(errors, declaration.err)
          /\ current' = synchronize(ptokens, declaration.cur)
    /\ UNCHANGED <<ptokens, program, presult, lexvars, tablevars, analyzervars,
                   typevars>>

\* current_token is None: parse_program returns and parse builds its result.
ParseReturn ==
    /\ presult = None
    /\ current > Len(ptokens)
    /\ presult' = Some(parse_result(errors, program))
    /\ UNCHANGED <<ptokens, current, errors, program, lexvars, tablevars,
                   analyzervars, typevars>>

(***************************************************************************)
(* The token vectors the parser is run on.  A token is written as the pair *)
(* << token type, lexeme >>; its line is 1 and its column its index.       *)
(***************************************************************************)
MaxTokens == 4
MaxOps == 2

Lexeme(token_type) ==
    CASE token_type = "Let" -> "let"
      [] token_type = "Mut" -> "mut"
      [] token_type = "Fn" -> "fn"
      [] token_type = "Return" -> "return"
      [] token_type = "If" -> "if"
      [] token_type = "Else" -> "else"
      [] token_type = "For" -> "for"
      [] token_type = "While" -> "while"
      [] token_type = "In" -> "in"
      [] token_type = "Struct" -> "struct"
      [] token_type = "Impl" -> "impl"
      [] token_type = "Mod" -> "mod"
      [] token_type = "LeftParen" -> "("
      [] token_type = "RightParen" -> ")"
      [] token_type = "LeftBrace" -> "{"
      [] token_type = "RightBrace" -> "}"
      [] token_type = "Semicolon" -> ";"
      [] token_type = "Colon" -> ":"
      [] token_type = "Comma" -> ","
      [] token_type = "Arrow" -> "->"
      [] token_type = "EOF" -> ""
      [] token_type = "Identifier" -> "x"
      [] token_type = "IntLiteral" -> "1"
      [] OTHER -> operator_value(token_type)

K(token_type) == << token_type, Lexeme(token_type) >>
Id(name) == << "Identifier", name >>
Lit(digits) == << "IntLiteral", digits >>

MkTokens(items) ==
    [i \in 1..Len(items) |-> Token(items[i][1], items[i][2], 1, i)]

\* Every sequence of at most MaxTokens tokens over DeclKinds.
DeclKinds == { "Let", "Identifier", "Assign", "Semicolon", "LeftBrace", "RightBrace" }

DeclInputs ==
    { [i \in 1..Len(kinds) |-> K(kinds[i])] :
        kinds \in UNION { [1..n -> DeclKinds] : n \in 0..MaxTokens } }

\* Every expression statement `operand (operator operand)* ;` with at most MaxOps
\* binary operators over ExprOps; the k-th operand is the identifier OperandNames[k],
\* the integer literal k, or the negated identifier.
ExprOps ==
    { "Assign", "Equal", "Less", "Plus", "Asterisk", "Caret" }

OperandForms == { "identifier", "literal", "negated" }
OperandNames == << "a", "b", "c", "d", "e" >>
OperandDigits == << "1", "2", "3", "4", "5" >>

Operand(form, k) ==
    CASE form = "identifier" -> << Id(OperandNames[k]) >>
      [] form = "literal" -> << Lit(OperandDigits[k]) >>
      [] form = "negated" -> << K("Minus"), Id(OperandNames[k]) >>

RECURSIVE ExprItems(_, _, _)
ExprItems(forms, ops, k) ==
    IF k > Len(ops) THEN Operand(forms[k], k)
    ELSE Operand(forms[k], k) \o << K(ops[k]) >> \o ExprItems(forms, ops, k + 1)

ExprInputs ==
    UNION { { ExprItems(forms, ops, 1) \o << K("Semicolon") >> :
                forms \in [1..(n + 1) -> OperandForms], ops \in [1..n -> ExprOps] } :
            n \in 0..MaxOps }

\* Every sequence of one or two tokens over the keywords synchronize stops at
\* and the tokens that open a statement, a block or a parameter list.
RecoveryKinds == SyncKeywords \cup { "Identifier", "LeftBrace", "LeftParen" }

RecoveryInputs ==
    { [i \in 1..Len(kinds) |-> K(kinds[i])] :
        kinds \in UNION { [1..n -> RecoveryKinds] : n \in 1..2 } }

\* The openings of bodies, one or more deep.
BodyOpenings ==
    { << K("LeftBrace") >>,
      << K("Fn"), Id("f"), K("LeftParen"), K("RightParen"), K("LeftBrace") >>,
      << K("Mod"), Id("m"), K("LeftBrace") >>,
      << K("Impl"), Id("s"), K("LeftBrace"), K("Fn"), Id("g"), K("LeftParen"),
         K("RightParen"), K("LeftBrace") >>,
      << K("If"), Id("a"), K("LeftBrace") >>,
      << K("While"), Id("a"), K("LeftBrace") >>,
      << K("For"), Id("i"), K("In"), Id("r"), K("LeftBrace") >>,
      << K("Fn"), Id("f"), K("LeftParen"), K("RightParen"), K("LeftBrace"),
         K("LeftBrace") >>,
      << K("Mod"), Id("m"), K("LeftBrace"), K("Fn"), Id("f"), K("LeftParen"),
         K("RightParen"), K("LeftBrace"), K("While"), Id("a"), K("LeftBrace") >> }

RECURSIVE Closings(_, _)
Closings(opening, i) ==
    IF i > Len(opening) THEN << >>
    ELSE (IF opening[i] = K("LeftBrace") THEN << K("RightBrace") >> ELSE << >>)
             \o Closings(opening, i + 1)

\* `let = 1; let y = 2;` within each opening: the first statement of the
\* innermost body fails, the second is well formed.
NestedFailureInputs ==
    { opening \o << K("Let"), K("Assign"), Lit("1"), K("Semicolon"),
                    K("Let"), Id("y"), K("Assign"), Lit("2"), K("Semicolon") >>
              \o Closings(opening, 1) : opening \in BodyOpenings }

\* Programs that between them use every production of the grammar.
ParserSamples ==
    { << K("Fn"), Id("main"), K("LeftParen"), K("RightParen"), K("LeftBrace"),
         K("RightBrace") >>,
      << K("Let"), Id("x"), K("Assign"), Lit("1"), K("Semicolon") >>,
      << K("Let"), K("Mut"), Id("x"), K("Colon"), Id("int"), K("Assign"), Lit("5"),
         K("Plus"), Lit("3"), K("Semicolon") >>,
      << K("Fn"), Id("f"), K("LeftParen"), Id("a"), K("Colon"), Id("int"), K("Comma"),
         Id("b"), K("Colon"), Id("int"), K("RightParen"), K("Arrow"), Id("int"),
         K("LeftBrace"), K("Return"), Id("a"), K("Plus"), Id("b"), K("Semicolon"),
         K("RightBrace") >>,
      << K("Struct"), Id("P"), K("LeftBrace"), Id("x"), K("Colon"), Id("int"),
         K("Comma"), Id("y"), K("Colon"), Id("int"), K("Comma"), K("RightBrace"),
         K("Impl"), Id("P"), K("LeftBrace"), K("Fn"), Id("g"), K("LeftParen"),
         K("RightParen"), K("LeftBrace"), K("RightBrace"), K("RightBrace"),
         K("Mod"), Id("m"), K("LeftBrace"), K("Let"), Id("y"), K("Assign"), Lit("1"),
         K("Semicolon"), K("RightBrace") >>,
      << K("If"), Id("a"), K("Equal"), Id("b"), K("LeftBrace"), K("RightBrace"),
         K("Else"), K("If"), Id("a"), K("LeftBrace"), K("RightBrace"), K("Else"),
         K("LeftBrace"), K("RightBrace"), K("While"), Id("a"), K("Less"), Id("b"),
         K("LeftBrace"), K("RightBrace"), K("For"), Id("i"), K("In"), Id("r"),
         K("LeftBrace"), K("Return"), K("Semicolon"), K("RightBrace") >>,
      << Id("f"), K("LeftParen"), Id("a"), K("Comma"), K("LeftParen"), Id("b"),
         K("RightParen"), K("RightParen"), K("Semicolon"), Id("g"), K("LeftParen"),
         K("RightParen"), K("Semicolon"), Id("a"), K("MinusAssign"), Lit("1"),
         K("Slash"), Lit("2"), K("Percent"), Lit("3"), K("Semicolon"), Id("a"),
         K("MulAssign"), << "FloatLiteral", "1.5" >>, K("Semicolon"), Id("a"),
         K("DivAssign"), Lit("1"), K("Semicolon"), Id("a"), K("NotEqual"),
         << "BoolLiteral", "true" >>, K("Semicolon"), Id("a"), K("Greater"), Id("b"),
         K("Semicolon"), Id("a"), K("GreaterEq"), Id("b"), K("Semicolon"), Id("a"),
         K("LessEq"), << "StringLiteral", "s" >>, K("Semicolon") >>,
      << K("Fn"), Id("f"), K("LeftParen"), K("RightParen"), K("LeftBrace"), K("Let"),
         K("Assign"), Lit("1"), K("Semicolon"), K("RightBrace"), K("Let"), K("Assign"),
         Lit("2"), K("Semicolon") >>,
      << Id("a"), K("Assign"), Id("b"), K("Assign"), Lit("1"), K("Semicolon") >>,
      << Lit("1"), K("Assign"), Id("a"), K("Semicolon") >> }

\* A source as the lexer hands it over (with the EOF token tokenize appends), or a
\* token vector without one, which Parser::new accepts as well.
ParserInput(items, with_eof) ==
    MkTokens(IF with_eof THEN items \o << K("EOF") >> ELSE items)

LexerIdle ==
    /\ input = << >>
    /\ lexer = LexerNew
    /\ tokens = << >>
    /\ lex_done = TRUE

InitParse ==
    /\ \E with_eof \in BOOLEAN :
          \/ \E items \in DeclInputs : ptokens = ParserInput(items, with_eof)
          \/ \E items \in ExprInputs : ptokens = ParserInput(items, with_eof)
          \/ \E items \in ParserSamples : ptokens = ParserInput(items, with_eof)
          \/ \E items \in RecoveryInputs : ptokens = ParserInput(items, with_eof)
          \/ \E items \in NestedFailureInputs : ptokens = ParserInput(items, with_eof)
    /\ current = 1
    /\ errors = << >>
    /\ program = << >>
    /\ presult = None
    /\ LexerIdle
    /\ SemanticsIdle

NextParse == ParseDeclaration \/ ParseRecover \/ ParseReturn

SpecParse == InitParse /\ [][NextParse]_vars

(***************************************************************************)
(* semantics/types.rs: Type.  A type is the record [tag, name, args, ret,  *)
(* size]: name for Struct, Module and TypeParameter, args for the element  *)
(* or inner type and the parameter types, ret for a function's return type *)
(* and size for an array's.  Type("Int"), Type("Float"), ... are the       *)
(* variants without a payload.                                             *)
(***************************************************************************)
Type(tag) == [tag |-> tag, name |-> "", args |-> << >>, ret |-> None, size |-> None]

Struct(name) == [Type("Struct") EXCEPT !.name = name]
Function(params, ret) == [Type("Function") EXCEPT !.args = params, !.ret = Some(ret)]
Array(element, size) == [Type("Array") EXCEPT !.args = << element >>, !.size = size]
Ref(inner) == [Type("Ref") EXCEPT !.args = << inner >>]
Optional(inner) == [Type("Optional") EXCEPT !.args = << inner >>]
TypeParameter(name) == [Type("TypeParameter") EXCEPT !.name = name]

\* The type names of the model that begin with an upper-case letter.
UppercaseNames == { "P", "Q" }

\* An identifier token holds letters, digits and `_` only, so the `[]`, `&` and
\* `?` forms of from_name are not names a type annotation can carry.
from_name(name) ==
    CASE name = "int" -> Type("Int")
      [] name = "float" -> Type("Float")
      [] name = "string" -> Type("String")
      [] name = "bool" -> Type("Bool")
      [] name = "void" -> Type("Void")
      [] name \in UppercaseNames -> Struct(name)
      [] OTHER -> Type("Unknown")

\* An is_compatible_with that widens the wrong way: Float to Int.
RECURSIVE is_compatible_with_narrowing(_, _)
is_compatible_with_narrowing(self, other) ==
    IF self = other THEN TRUE
    ELSE IF self.tag = "Any" \/ other.tag = "Any" THEN TRUE
    ELSE IF self.tag = "Null" /\ other.tag = "Optional" THEN TRUE
    ELSE IF self.tag = "Float" /\ other.tag = "Int" THEN TRUE
    ELSE IF self.tag = "Optional" THEN is_compatible_with_narrowing(self.args[1], other)
    ELSE IF other.tag = "Optional" THEN is_compatible_with_narrowing(self, other.args[1])
    ELSE IF self.tag = "Ref" /\ other.tag = "Ref"
    THEN is_compatible_with_narrowing(self.args[1], other.args[1])
    ELSE IF self.tag = "Array" /\ other.tag = "Array"
    THEN is_compatible_with_narrowing(self.args[1], other.args[1])
    ELSE IF self.tag = "Function" /\ other.tag = "Function"
    THEN /\ Len(self.args) = Len(other.args)
         /\ is_compatible_with_narrowing(self.ret[1], other.ret[1])
         /\ \A i \in 1..Len(self.args) :
               is_compatible_with_narrowing(self.args[i], other.args[i])
    ELSE IF self.tag = "TypeParameter" /\ other.tag = "TypeParameter"
    THEN self.name = other.name
    ELSE FALSE

RECURSIVE is_compatible_with(_, _)
is_compatible_with(self, other) ==
    IF self = other THEN TRUE
    ELSE IF self.tag = "Any" \/ other.tag = "Any" THEN TRUE
    ELSE IF self.tag = "Null" /\ other.tag = "Optional" THEN TRUE
    ELSE IF self.tag = "Int" /\ other.tag = "Float" THEN TRUE
    ELSE IF self.tag = "Optional" THEN is_compatible_with(self.args[1], other)
    ELSE IF other.tag = "Optional" THEN is_compatible_with(self, other.args[1])
    ELSE IF self.tag = "Ref" /\ other.tag = "Ref"
    THEN is_compatible_with(self.args[1], other.args[1])
    ELSE IF self.tag = "Array" /\ other.tag = "Array"
    THEN is_compatible_with(self.args[1], other.args[1])
    ELSE IF self.tag = "Function" /\ other.tag = "Function"
    THEN /\ Len(self.args) = Len(other.args)
         /\ is_compatible_with(self.ret[1], other.ret[1])
         /\ \A i \in 1..Len(self.args) : is_compatible_with(self.args[i], other.args[i])
    ELSE IF self.tag = "TypeParameter" /\ other.tag = "TypeParameter"
    THEN self.name = other.name
    ELSE FALSE

(***************************************************************************)
(* semantics/error.rs: SemanticError.  The message is kept by its fixed    *)
(* part and the name or types it quotes.                                   *)
(***************************************************************************)
SemanticError(error_type, message, detail, token, line, column) ==
    [error_type |-> error_type, message |-> message, detail |-> detail,
     token |-> token, line |-> line, column |-> column, is_warning |-> FALSE]

\* SemanticError::new: the position is the token's, or 0, 0 without a token.
SemanticError_new(error_type, message, detail, token) ==
    SemanticError(error_type, message, detail, token,
                  IF token = None THEN 0 ELSE token[1].line,
                  IF token = None THEN 0 ELSE token[1].column)

with_position(error_type, message, detail, line, column) ==
    SemanticError(error_type, message, detail, None, line, column)

SemanticOk(value) == [ok |-> TRUE, value |-> value]
SemanticErr(err) == [ok |-> FALSE, err |-> err]

can_assign_from(self, other) ==
    IF is_compatible_with(self, other) THEN SemanticOk(None)
    ELSE SemanticErr(SemanticError_new("TypeMismatch", "Tip uyusmazligi",
                                       << self, other >>, None))

(***************************************************************************)
(* semantics/symbol_table.rs: Symbol, Scope and SymbolTable.  The symbols  *)
(* of a scope are a function from the names defined in it.                 *)
(***************************************************************************)
Symbol(name, symbol_type, kind, is_mutable, scope_level, line, column) ==
    [name |-> name, symbol_type |-> symbol_type, kind |-> kind,
     is_mutable |-> is_mutable, scope_level |-> scope_level, line |-> line,
     column |-> column, is_used |-> FALSE, is_initialized |-> FALSE,
     parameters |-> None]

new_variable(name, symbol_type, is_mutable, scope_level, line, column, is_initialized) ==
    [Symbol(name, symbol_type, "Variable", is_mutable, scope_level, line, column)
        EXCEPT !.is_initialized = is_initialized]

new_function(name, return_type, parameters, scope_level, line, column) ==
    [Symbol(name,
            Function([i \in 1..Len(parameters) |-> parameters[i].symbol_type],
                     return_type),
            "Function", FALSE, scope_level, line, column)
        EXCEPT !.parameters = Some(parameters), !.is_initialized = TRUE]

ScopeType ==
    { "Global", "Function", "Block", "Loop", "If", "Struct", "Impl", "Module" }

Scope(level, scope_type) ==
    [level |-> level, symbols |-> << >>, scope_type |-> scope_type]

Insert(symbols, name, symbol) ==
    [n \in DOMAIN symbols \cup { name } |-> IF n = name THEN symbol ELSE symbols[n]]

\* A define that puts the symbol in whether or not the name is taken.
Scope_define_overwriting(scope, symbol) ==
    SemanticOk([scope EXCEPT !.symbols = Insert(@, symbol.name, symbol)])

Scope_define(scope, symbol) ==
    IF symbol.name \in DOMAIN scope.symbols
    THEN SemanticErr(with_position("Redefinition", "daha once tanimlanmis",
                                   << symbol.name,
                                      scope.symbols[symbol.name].kind,
                                      scope.symbols[symbol.name].line,
                                      scope.symbols[symbol.name].column >>,
                                   symbol.line, symbol.column))
    ELSE SemanticOk([scope EXCEPT !.symbols = Insert(@, symbol.name, symbol)])

Last(seq) == seq[Len(seq)]
Front(seq) == SubSeq(seq, 1, Len(seq) - 1)

\* SymbolTable::new before its enter_scope(Global).
SymbolTable == [scopes |-> << >>, current_function |-> None, current_struct |-> None]

\* The names the loop over the pushed scope's symbols can stop at.
SymbolsOfKind(scope, kind) ==
    { name \in DOMAIN scope.symbols : scope.symbols[name].kind = kind }

\* The scope pushed holds no symbol, so neither loop over it finds a name and
\* current_function and current_struct stay as they are.
enter_scope(table, scope_type) ==
    LET pushed == Scope(Len(table.scopes), scope_type)
    IN  [table EXCEPT
            !.scopes = Append(@, pushed),
            !.current_function =
                IF scope_type = "Function" /\ SymbolsOfKind(pushed, "Function") # { }
                THEN Some(CHOOSE name \in SymbolsOfKind(pushed, "Function") : TRUE)
                ELSE @,
            !.current_struct =
                IF scope_type = "Struct" /\ SymbolsOfKind(pushed, "Type") # { }
                THEN Some(CHOOSE name \in SymbolsOfKind(pushed, "Type") : TRUE)
                ELSE @]

SymbolTable_new == enter_scope(SymbolTable, "Global")

\* An exit_scope that pops whenever a scope is left.
exit_scope_unguarded(table) ==
    IF Len(table.scopes) > 0
    THEN [table |-> [table EXCEPT !.scopes = Front(@)],
          popped |-> Some(Last(table.scopes))]
    ELSE [table |-> table, popped |-> None]

\* exit_scope: the table afterwards and the Option<Scope> returned.
exit_scope(table) ==
    IF Len(table.scopes) > 1
    THEN [table |-> [table EXCEPT
                        !.scopes = Front(@),
                        !.current_function =
                            IF Last(table.scopes).scope_type = "Function"
                            THEN None ELSE @,
                        !.current_struct =
                            IF Last(table.scopes).scope_type = "Function" THEN @
                            ELSE IF Last(table.scopes).scope_type = "Struct"
                            THEN None ELSE @],
          popped |-> Some(Last(table.scopes))]
    ELSE [table |-> table, popped |-> None]

current_level(table) == Len(table.scopes) - 1

\* define_symbol: the table afterwards and the Result returned.
define_symbol(table, symbol) ==
    IF table.scopes = << >>
    THEN [table |-> table,
          result |-> SemanticErr(SemanticError_new("Other", "Kapsam bulunamadi",
                                                   << >>, None))]
    ELSE IF Scope_define(Last(table.scopes), symbol).ok
    THEN [table |-> [table EXCEPT !.scopes[Len(table.scopes)] =
                                      Scope_define(Last(table.scopes), symbol).value],
          result |-> SemanticOk(None)]
    ELSE [table |-> table, result |-> Scope_define(Last(table.scopes), symbol)]

define_variable(table, name, var_type, is_mutable, is_initialized, line, column) ==
    define_symbol(table, new_variable(name, var_type, is_mutable,
                                      current_level(table), line, column,
                                      is_initialized))

define_function(table, name, return_type, parameters, line, column) ==
    define_symbol(table, new_function(name, return_type, parameters,
                                      current_level(table), line, column))

Scope_resolve(scope, name) ==
    IF name \in DOMAIN scope.symbols THEN Some(scope.symbols[name]) ELSE None

\* The search run from the Global scope upwards instead.
Outermost(table, name) ==
    IF \A i \in 1..Len(table.scopes) : Scope_resolve(table.scopes[i], name) = None
    THEN 0
    ELSE CHOOSE i \in 1..Len(table.scopes) :
            /\ Scope_resolve(table.scopes[i], name) # None
            /\ \A j \in 1..(i - 1) : Scope_resolve(table.scopes[j], name) = None

\* The index of the innermost scope holding `name`, where the loops over
\* scopes.iter().rev() stop; 0 when no scope holds it.
Innermost(table, name) ==
    IF \A i \in 1..Len(table.scopes) : Scope_resolve(table.scopes[i], name) = None
    THEN 0
    ELSE CHOOSE i \in 1..Len(table.scopes) :
            /\ Scope_resolve(table.scopes[i], name) # None
            /\ \A j \in (i + 1)..Len(table.scopes) :
                  Scope_resolve(table.scopes[j], name) = None

resolve(table, name) ==
    IF Innermost(table, name) = 0
    THEN SemanticErr(SemanticError_new("UndefinedVariable", "tanimli degil",
                                       << name >>, None))
    ELSE SemanticOk(table.scopes[Innermost(table, name)].symbols[name])

mark_used(table, name) ==
    IF Innermost(table, name) = 0
    THEN [table |-> table,
          result |-> SemanticErr(SemanticError_new("UndefinedVariable",
                                                   "tanimli degil, kullanilamaz",
                                                   << name >>, None))]
    ELSE [table |-> [table EXCEPT
                        !.scopes[Innermost(table, name)].symbols[name].is_used = TRUE],
          result |-> SemanticOk(None)]

mark_initialized(table, name) ==
    IF Innermost(table, name) = 0
    THEN [table |-> table,
          result |-> SemanticErr(SemanticError_new("UndefinedVariable",
                                                   "tanimli degil, deger atanamaz",
                                                   << name >>, None))]
    ELSE [table |-> [table EXCEPT
                        !.scopes[Innermost(table, name)].symbols[name].is_initialized
                            = TRUE],
          result |-> SemanticOk(None)]

resolve_type(table, name) ==
    IF ~resolve(table, name).ok THEN resolve(table, name)
    ELSE IF resolve(table, name).value.kind = "Type" THEN resolve(table, name)
    ELSE SemanticErr(SemanticError_new("Other", "bir tip degil",
                                       << name, resolve(table, name).value.kind >>,
                                       None))

\* Every order in which the values of a HashMap holding the names S can come.
Orderings(S) ==
    { order \in [1..Cardinality(S) -> S] :
        \A i, j \in 1..Cardinality(S) : i # j => order[i] # order[j] }

\* The filters of get_unused_symbols and get_uninitialized_symbols.
Reported(symbol, filter) ==
    IF filter = "unused" THEN ~symbol.is_used /\ symbol.kind # "Function"
    ELSE ~symbol.is_initialized /\ symbol.kind = "Variable"

\* The vectors the loop over the scopes and over each scope's symbols.values()
\* can build: the scopes in order, each scope's symbols in any order.
RECURSIVE symbols_reported(_, _, _)
symbols_reported(scopes, i, filter) ==
    IF i > Len(scopes) THEN { << >> }
    ELSE { [k \in 1..Len(order) |-> scopes[i].symbols[order[k]]] \o rest :
             order \in Orderings({ name \in DOMAIN scopes[i].symbols :
                                     Reported(scopes[i].symbols[name], filter) }),
             rest \in symbols_reported(scopes, i + 1, filter) }

get_unused_symbols(table) == symbols_reported(table.scopes, 1, "unused")

get_uninitialized_symbols(table) == symbols_reported(table.scopes, 1, "uninitialized")

(***************************************************************************)
(* The calls made on a SymbolTable: any sequence of enter_scope,           *)
(* exit_scope, define_var, define_variable, define_function, resolve,      *)
(* mark_used and mark_initialized, with at most MaxDepth scopes above the  *)
(* Global one.                                                             *)
(***************************************************************************)
MaxDepth == 2

TableScopeTypes == { "Function", "Block" }
TableNames == { "x" }

Returned_by(call, returned) == [call |-> call, returned |-> returned]

EnterScope ==
    /\ Len(symbol_table.scopes) <= MaxDepth
    /\ \E scope_type \in TableScopeTypes :
          symbol_table' = enter_scope(symbol_table, scope_type)
    /\ table_result' = Returned_by("enter_scope", None)
    /\ UNCHANGED <<lexvars, parservars, analyzervars, typevars>>

ExitScope ==
    /\ symbol_table' = exit_scope(symbol_table).table
    /\ table_result' = Returned_by("exit_scope", exit_scope(symbol_table).popped)
    /\ UNCHANGED <<lexvars, parservars, analyzervars, typevars>>

\* define_var: Symbol::new with SymbolKind::Variable, handed to define_symbol.
\* Each kind of call declares at a position of its own.
DefineVarNamed(name) ==
    /\ \E defined \in { define_symbol(symbol_table,
                                      Symbol(name, Type("Int"), "Variable", FALSE,
                                             current_level(symbol_table), 1, 1)) } :
          /\ symbol_table' = defined.table
          /\ table_result' = Returned_by("define_var", defined.result)
    /\ UNCHANGED <<lexvars, parservars, analyzervars, typevars>>

DefineVar == \E name \in TableNames : DefineVarNamed(name)

DefineVariableNamed(name) ==
    /\ \E defined \in { define_variable(symbol_table, name, Type("Int"), TRUE, TRUE,
                                        2, 3) } :
          /\ symbol_table' = defined.table
          /\ table_result' = Returned_by("define_variable", defined.result)
    /\ UNCHANGED <<lexvars, parservars, analyzervars, typevars>>

DefineVariable == \E name \in TableNames : DefineVariableNamed(name)

DefineFunctionNamed(name) ==
    /\ \E defined \in { define_function(symbol_table, name, Type("Void"), << >>,
                                        3, 5) } :
          /\ symbol_table' = defined.table
          /\ table_result' = Returned_by("define_function", defined.result)
    /\ UNCHANGED <<lexvars, parservars, analyzervars, typevars>>

DefineFunction == \E name \in TableNames : DefineFunctionNamed(name)

\* resolve takes &self: the table stays and the Result is what it returns.
ResolveNamed(name) ==
    /\ table_result' = Returned_by("resolve", resolve(symbol_table, name))
    /\ UNCHANGED <<symbol_table, lexvars, parservars, analyzervars, typevars>>

Resolve == \E name \in TableNames : ResolveNamed(name)

MarkUsedNamed(name) ==
    /\ symbol_table' = mark_used(symbol_table, name).table
    /\ table_result' = Returned_by("mark_used", mark_used(symbol_table, name).result)
    /\ UNCHANGED <<lexvars, parservars, analyzervars, typevars>>

MarkUsed == \E name \in TableNames : MarkUsedNamed(name)

MarkInitializedNamed(name) ==
    /\ symbol_table' = mark_initialized(symbol_table, name).table
    /\ table_result' =
          Returned_by("mark_initialized", mark_initialized(symbol_table, name).result)
    /\ UNCHANGED <<lexvars, parservars, analyzervars, typevars>>

MarkInitialized == \E name \in TableNames : MarkInitializedNamed(name)

InitTable ==
    /\ symbol_table = SymbolTable_new
    /\ table_result = Returned_by("new", None)
    /\ LexerIdle
    /\ ParserIdle
    /\ AnalyzerIdle
    /\ TypesIdle

NextTable ==
    \/ EnterScope
    \/ ExitScope
    \/ DefineVar
    \/ DefineVariable
    \/ DefineFunction
    \/ Resolve
    \/ MarkUsed
    \/ MarkInitialized

SpecTable == InitTable /\ [][NextTable]_vars

(***************************************************************************)
(* semantics/types.rs: the checks on the operands of an operator; each     *)
(* returns a Result holding the type of the expression.                    *)
(***************************************************************************)
Numeric == { Type("Int"), Type("Float") }
ArithmeticOperators == { "+", "-", "*", "/" }

\* A check that takes two Strings under every operator, not under `+` alone.
check_arithmetic_compatible_any_operator(self, other, operator) ==
    CASE self = Type("Int") /\ other = Type("Int") -> SemanticOk(Type("Int"))
      [] self \in Numeric /\ other \in Numeric -> SemanticOk(Type("Float"))
      [] self = Type("String") /\ other = Type("String") -> SemanticOk(Type("String"))
      [] self = Type("Any") -> SemanticOk(other)
      [] other = Type("Any") -> SemanticOk(self)
      [] /\ self.tag = "TypeParameter"
         /\ other \in Numeric \cup { Type("String") }
         /\ operator \in ArithmeticOperators
            -> SemanticOk(other)
      [] /\ other.tag = "TypeParameter"
         /\ self \in Numeric \cup { Type("String") }
         /\ operator \in ArithmeticOperators
            -> SemanticOk(self)
      [] OTHER
            -> SemanticErr(SemanticError_new("TypeMismatch",
                                             "operatoru tipler icin gecerli degil",
                                             << operator, self, other >>, None))

check_arithmetic_compatible(self, other, operator) ==
    CASE self = Type("Int") /\ other = Type("Int") -> SemanticOk(Type("Int"))
      [] self \in Numeric /\ other \in Numeric -> SemanticOk(Type("Float"))
      [] self = Type("String") /\ other = Type("String") /\ operator = "+"
            -> SemanticOk(Type("String"))
      [] self = Type("Any") -> SemanticOk(other)
      [] other = Type("Any") -> SemanticOk(self)
      [] /\ self.tag = "TypeParameter"
         /\ other \in Numeric \cup { Type("String") }
         /\ operator \in ArithmeticOperators
            -> SemanticOk(other)
      [] /\ other.tag = "TypeParameter"
         /\ self \in Numeric \cup { Type("String") }
         /\ operator \in ArithmeticOperators
            -> SemanticOk(self)
      [] OTHER
            -> SemanticErr(SemanticError_new("TypeMismatch",
                                             "operatoru tipler icin gecerli degil",
                                             << operator, self, other >>, None))

check_comparison_compatible(self, other, operator) ==
    IF self = Type("Any") \/ other = Type("Any") THEN SemanticOk(Type("Bool"))
    ELSE IF operator \in { "==", "!=" } /\ is_compatible_with(self, other)
    THEN SemanticOk(Type("Bool"))
    ELSE IF /\ operator \in { "<", ">", "<=", ">=" }
            /\ \/ self \in Numeric /\ other \in Numeric
               \/ self = Type("String") /\ other = Type("String")
               \/ self.tag = "TypeParameter" /\ other \in Numeric \cup { Type("String") }
               \/ other.tag = "TypeParameter" /\ self \in Numeric \cup { Type("String") }
    THEN SemanticOk(Type("Bool"))
    ELSE SemanticErr(SemanticError_new("TypeMismatch",
                                       "karsilastirma operatoru tipler icin gecerli degil",
                                       << operator, self, other >>, None))

(***************************************************************************)
(* The calls made on two types: is_compatible_with, can_assign_from,       *)
(* check_arithmetic_compatible and check_comparison_compatible on every    *)
(* pair of the types below.  A TypeParameter is taken without a            *)
(* constraint.                                                             *)
(***************************************************************************)
\* The wrappers Optional, Ref and Array nest TypeDepth deep; a function takes at
\* most MaxParams parameters.
TypeDepth == 1
MaxParams == 1

Atoms ==
    { Type("Int"), Type("Float"), Type("String"), Type("Bool"), Type("Any"),
      Type("Null"), TypeParameter("P") }

RECURSIVE Wrapped(_)
Wrapped(depth) ==
    IF depth = 0 THEN Atoms
    ELSE Atoms \cup { Optional(inner) : inner \in Wrapped(depth - 1) }
               \cup { Ref(inner) : inner \in Wrapped(depth - 1) }
               \cup { Array(inner, None) : inner \in Wrapped(depth - 1) }

SignatureTypes == { Type("Int"), Type("Float"), Type("Any") }

Functions ==
    { Function(params, ret) :
        params \in UNION { [1..n -> SignatureTypes] : n \in 0..MaxParams },
        ret \in SignatureTypes }

OperandTypes == Wrapped(TypeDepth) \cup Functions \cup { Array(Type("Int"), Some(2)) }

ArithmeticOperatorTokens == { "+", "-", "*", "/", "%" }
ComparisonOperatorTokens == { "==", "!=", "<", ">", "<=", ">=" }

Called(call, operator, returned) ==
    Some([call |-> call, operator |-> operator, returned |-> returned])

IsCompatibleWith ==
    /\ operands # None
    /\ type_result'
          = Called("is_compatible_with", "",
                   is_compatible_with(operands.self, operands.other))
    /\ UNCHANGED <<operands, lexvars, parservars, tablevars, analyzervars>>

CanAssignFrom ==
    /\ operands # None
    /\ type_result'
          = Called("can_assign_from", "", can_assign_from(operands.self, operands.other))
    /\ UNCHANGED <<operands, lexvars, parservars, tablevars, analyzervars>>

CheckArithmeticCompatible ==
    /\ operands # None
    /\ \E operator \in ArithmeticOperatorTokens :
          type_result'
             = Called("check_arithmetic_compatible", operator,
                      check_arithmetic_compatible(operands.self, operands.other,
                                                  operator))
    /\ UNCHANGED <<operands, lexvars, parservars, tablevars, analyzervars>>

CheckComparisonCompatible ==
    /\ operands # None
    /\ \E operator \in ComparisonOperatorTokens :
          type_result'
             = Called("check_comparison_compatible", operator,
                      check_comparison_compatible(operands.self, operands.other,
                                                  operator))
    /\ UNCHANGED <<operands, lexvars, parservars, tablevars, analyzervars>>

InitTypes ==
    /\ \E self \in OperandTypes, other \in OperandTypes :
          operands = [self |-> self, other |-> other]
    /\ type_result = None
    /\ LexerIdle
    /\ ParserIdle
    /\ TableIdle
    /\ AnalyzerIdle

NextTypes ==
    \/ IsCompatibleWith
    \/ CanAssignFrom
    \/ CheckArithmeticCompatible
    \/ CheckComparisonCompatible

SpecTypes == InitTypes /\ [][NextTypes]_vars

(***************************************************************************)
(* semantics/analyzer.rs: SemanticAnalyzer.  A visit takes the analyzer    *)
(* and a node and gives the Visit [self, type]: the analyzer afterwards    *)
(* and the Type returned.                                                  *)
(***************************************************************************)
SemanticAnalyzer_new ==
    [symbol_table |-> SymbolTable_new, current_function_return_type |-> None,
     errors |-> << >>, in_loop |-> FALSE]

Visit(self, type) == [self |-> self, type |-> type]

add_error(self, error) == [self EXCEPT !.errors = Append(@, error)]

add_warning(self, warning) == [self EXCEPT !.errors = Append(@, warning)]

\* `if let Err(err) = <call on the symbol table> { self.add_error(err) }`, the
\* call having given the table afterwards and its Result.
table_call(self, call) ==
    IF call.result.ok THEN [self EXCEPT !.symbol_table = call.table]
    ELSE add_error([self EXCEPT !.symbol_table = call.table], call.result.err)

line_of(token) == IF token = None THEN 0 ELSE token[1].line
column_of(token) == IF token = None THEN 0 ELSE token[1].column

RECURSIVE visit_node(_, _)

visit_type_annotation(self, node) ==
    IF /\ from_name(node.value[1]).tag = "Struct"
       /\ ~resolve_type(self.symbol_table, from_name(node.value[1]).name).ok
    THEN Visit(add_error(self, SemanticError_new("Other", "tipi tanimlanmamis",
                                                 << node.value[1] >>, node.token)),
               Type("Error"))
    ELSE Visit(self, from_name(node.value[1]))

\* Every literal node the parser builds carries its token.
visit_literal(self, node) ==
    CASE node.token[1].token_type = "IntLiteral" -> Visit(self, Type("Int"))
      [] node.token[1].token_type = "FloatLiteral" -> Visit(self, Type("Float"))
      [] node.token[1].token_type = "StringLiteral" -> Visit(self, Type("String"))
      [] node.token[1].token_type = "BoolLiteral" -> Visit(self, Type("Bool"))
      [] OTHER
            -> Visit(add_error(self, SemanticError_new("Other",
                                                       "Desteklenmeyen literal tipi",
                                                       << node.token[1].token_type >>,
                                                       node.token)),
                     Type("Error"))

\* visit_identifier once resolve has given `symbol`.
identifier_resolved(self, node, symbol) ==
    Visit(IF symbol.kind = "Variable" /\ ~symbol.is_initialized
          THEN add_error(table_call(self, mark_used(self.symbol_table, node.value[1])),
                         SemanticError_new("Other",
                                           "degiskeni kullanimdan once baslatilmamis",
                                           << node.value[1] >>, node.token))
          ELSE table_call(self, mark_used(self.symbol_table, node.value[1])),
          symbol.symbol_type)

visit_identifier(self, node) ==
    IF resolve(self.symbol_table, node.value[1]).ok
    THEN identifier_resolved(self, node, resolve(self.symbol_table, node.value[1]).value)
    ELSE Visit(add_error(self, resolve(self.symbol_table, node.value[1]).err),
               Type("Error"))

\* The arm of visit_binary_expr for `=`, `+=`, `-=`, `*=` and `/=` on an
\* identifier that resolve has found as `symbol`.
CompoundOperator(operator) ==
    CASE operator = "+=" -> "+"
      [] operator = "-=" -> "-"
      [] operator = "*=" -> "*"
      [] operator = "/=" -> "/"
      [] OTHER -> "?"

assignment_checked(self, node, symbol, operator, right_type) ==
    IF operator = "="
    THEN IF can_assign_from(symbol.symbol_type, right_type).ok THEN self
         ELSE add_error(self, SemanticError_new("TypeMismatch", "Tip uyusmazligi",
                                                << symbol.symbol_type, right_type >>,
                                                node.token))
    ELSE IF check_arithmetic_compatible(symbol.symbol_type, right_type,
                                        CompoundOperator(operator)).ok
    THEN self
    ELSE add_error(self, SemanticError_new("TypeMismatch",
                                           "Bilesik atama icin tip uyusmazligi",
                                           << CompoundOperator(operator),
                                              symbol.symbol_type, right_type >>,
                                           node.token))

\* An assignment that does not look at the mutable flag of the target.
assignment_resolved_any_target(self, node, symbol, operator, right_type) ==
    Visit(table_call(assignment_checked(self, node, symbol, operator, right_type),
                     mark_initialized(self.symbol_table, symbol.name)),
          symbol.symbol_type)

assignment_resolved(self, node, symbol, operator, right_type) ==
    Visit(table_call(assignment_checked(
                         IF symbol.is_mutable THEN self
                         ELSE add_error(self, SemanticError_new(
                                                  "Other", "degistirilemez (mut degil)",
                                                  << symbol.name >>, node.token)),
                         node, symbol, operator, right_type),
                     mark_initialized(self.symbol_table, symbol.name)),
          symbol.symbol_type)

visit_assignment(self, node, operator, right_type) ==
    CASE node.children[1].node_type = "IdentifierExpr"
            -> IF resolve(self.symbol_table, node.children[1].value[1]).ok
               THEN assignment_resolved(
                        self, node,
                        resolve(self.symbol_table, node.children[1].value[1]).value,
                        operator, right_type)
               ELSE Visit(add_error(self, resolve(self.symbol_table,
                                                  node.children[1].value[1]).err),
                          Type("Error"))
      [] node.children[1].node_type \in { "MemberExpr", "IndexExpr" }
            -> Visit(self, Type("Error"))
      [] OTHER
            -> Visit(add_error(self, SemanticError_new(
                                         "Other",
                                         "Sol taraf atama icin gecerli bir hedef degil",
                                         << >>, node.token)),
                     Type("Error"))

\* A Result<Type> of types.rs taken as visit_binary_expr takes it.
checked(self, result, type) ==
    IF result.ok THEN Visit(self, type) ELSE Visit(add_error(self, result.err), Type("Error"))

\* visit_binary_expr once both operands have been visited.
\* A visit that takes an operator it does not know for one that gives the
\* type of its left operand.
binary_operands_visited_any_operator(self, node, left_type, right_type, operator) ==
    IF left_type = Type("Error") \/ right_type = Type("Error")
    THEN Visit(self, Type("Error"))
    ELSE CASE operator \in { "+", "-", "*", "/", "%" }
                -> IF check_arithmetic_compatible(left_type, right_type, operator).ok
                   THEN Visit(self, check_arithmetic_compatible(left_type, right_type,
                                                                operator).value)
                   ELSE Visit(add_error(self, check_arithmetic_compatible(
                                                  left_type, right_type, operator).err),
                              Type("Error"))
           [] operator \in { "==", "!=", "<", ">", "<=", ">=" }
                -> checked(self, check_comparison_compatible(left_type, right_type,
                                                             operator),
                           Type("Bool"))
           [] operator \in { "&&", "||" }
                -> IF left_type # Type("Bool") \/ right_type # Type("Bool")
                   THEN Visit(add_error(self, SemanticError_new(
                                                  "TypeMismatch",
                                                  "Mantiksal operator icin boolean gerekli",
                                                  << operator, left_type, right_type >>,
                                                  node.token)),
                              Type("Error"))
                   ELSE Visit(self, Type("Bool"))
           [] operator \in { "=", "+=", "-=", "*=", "/=" }
                -> visit_assignment(self, node, operator, right_type)
           [] OTHER
                -> Visit(self, left_type)

binary_operands_visited(self, node, left_type, right_type, operator) ==
    IF left_type = Type("Error") \/ right_type = Type("Error")
    THEN Visit(self, Type("Error"))
    ELSE CASE operator \in { "+", "-", "*", "/", "%" }
                -> IF check_arithmetic_compatible(left_type, right_type, operator).ok
                   THEN Visit(self, check_arithmetic_compatible(left_type, right_type,
                                                                operator).value)
                   ELSE Visit(add_error(self, check_arithmetic_compatible(
                                                  left_type, right_type, operator).err),
                              Type("Error"))
           [] operator \in { "==", "!=", "<", ">", "<=", ">=" }
                -> checked(self, check_comparison_compatible(left_type, right_type,
                                                             operator),
                           Type("Bool"))
           [] operator \in { "&&", "||" }
                -> IF left_type # Type("Bool") \/ right_type # Type("Bool")
                   THEN Visit(add_error(self, SemanticError_new(
                                                  "TypeMismatch",
                                                  "Mantiksal operator icin boolean gerekli",
                                                  << operator, left_type, right_type >>,
                                                  node.token)),
                              Type("Error"))
                   ELSE Visit(self, Type("Bool"))
           [] operator \in { "=", "+=", "-=", "*=", "/=" }
                -> visit_assignment(self, node, operator, right_type)
           [] OTHER
                -> Visit(add_error(self, SemanticError_new("Other", "Bilinmeyen operator",
                                                           << operator >>, node.token)),
                         Type("Error"))

visit_binary_expr(self, node) ==
    IF Len(node.children) < 2
    THEN Visit(add_error(self, SemanticError_new("Other", "Eksik ikili ifade", << >>,
                                                 node.token)),
               Type("Error"))
    ELSE Only({
         Only({ binary_operands_visited(right.self, node, left.type, right.type,
                                        node.value[1])
              : right \in { visit_node(left.self, node.children[2]) } })
              : left \in { visit_node(self, node.children[1]) } })

\* visit_unary_expr once the operand has been visited.
unary_operand_visited(self, node, expr_type, operator) ==
    IF expr_type = Type("Error") THEN Visit(self, Type("Error"))
    ELSE CASE operator = "-"
                -> IF expr_type \in Numeric THEN Visit(self, expr_type)
                   ELSE Visit(add_error(self, SemanticError_new(
                                                  "TypeMismatch",
                                                  "Operator tip icin gecerli degil",
                                                  << operator, expr_type >>,
                                                  node.token)),
                              Type("Error"))
           [] operator = "!"
                -> IF expr_type = Type("Bool") THEN Visit(self, Type("Bool"))
                   ELSE Visit(add_error(self, SemanticError_new(
                                                  "TypeMismatch",
                                                  "Operator tip icin gecerli degil, bool bekleniyor",
                                                  << operator, expr_type >>,
                                                  node.token)),
                              Type("Error"))
           [] OTHER
                -> Visit(add_error(self, SemanticError_new(
                                             "Other", "Bilinmeyen tekli operator",
                                             << operator >>, node.token)),
                         Type("Error"))

visit_unary_expr(self, node) ==
    IF node.children = << >>
    THEN Visit(add_error(self, SemanticError_new("Other", "Eksik tekli ifade", << >>,
                                                 node.token)),
               Type("Error"))
    ELSE Only({ unary_operand_visited(expr.self, node, expr.type, node.value[1])
              : expr \in { visit_node(self, node.children[1]) } })

visit_group_expr(self, node) ==
    IF node.children = << >>
    THEN Visit(add_error(self, SemanticError_new("Other", "Bos grup ifadesi", << >>,
                                                 node.token)),
               Type("Error"))
    ELSE visit_node(self, node.children[1])

visit_expr_stmt(self, node) ==
    IF node.children = << >> THEN Visit(self, Type("Void"))
    ELSE visit_node(self, node.children[1])

\* The arguments of a call visited in order: the analyzer afterwards and the
\* vector arg_types.
RECURSIVE visit_arguments(_, _, _, _)
visit_arguments(self, children, i, arg_types) ==
    IF i > Len(children) THEN [self |-> self, arg_types |-> arg_types]
    ELSE Only({ visit_arguments(arg.self, children, i + 1, Append(arg_types, arg.type))
              : arg \in { visit_node(self, children[i]) } })

\* The loop of visit_call_expr over the arguments zipped with the parameters.
RECURSIVE check_arguments(_, _, _, _, _)
check_arguments(self, node, arg_types, param_types, i) ==
    IF i > Len(arg_types) THEN self
    ELSE check_arguments(
             IF /\ arg_types[i] # Type("Error")
                /\ param_types[i] # Type("Error")
                /\ ~can_assign_from(param_types[i], arg_types[i]).ok
             THEN add_error(self, SemanticError_new(
                                      "TypeMismatch", "Arguman icin tip uyusmazligi",
                                      << i, param_types[i], arg_types[i] >>,
                                      node.children[i].token))
             ELSE self,
             node, arg_types, param_types, i + 1)

\* visit_call_expr once the arguments of a call of a function have been visited.
arguments_visited(self, node, arg_types, param_types, return_type) ==
    IF Len(arg_types) # Len(param_types)
    THEN Visit(add_error(self, SemanticError_new(
                                   "Other", "Fonksiyon arguman sayisi",
                                   << node.value[1], Len(param_types), Len(arg_types) >>,
                                   node.token)),
               return_type)
    ELSE Visit(check_arguments(self, node, arg_types, param_types, 1), return_type)

\* visit_call_expr once resolve has given `symbol` and mark_used has run.
call_resolved(self, node, symbol) ==
    IF symbol.symbol_type.tag = "Function"
    THEN Only({ arguments_visited(args.self, node, args.arg_types,
                                  symbol.symbol_type.args, symbol.symbol_type.ret[1])
              : args \in { visit_arguments(self, node.children, 1, << >>) } })
    ELSE Visit(add_error(self, SemanticError_new("Other", "bir fonksiyon degil",
                                                 << node.value[1] >>, node.token)),
               Type("Error"))

visit_call_expr(self, node) ==
    IF resolve(self.symbol_table, node.value[1]).ok
    THEN call_resolved(table_call(self, mark_used(self.symbol_table, node.value[1])),
                       node, resolve(self.symbol_table, node.value[1]).value)
    ELSE Visit(add_error(self, resolve(self.symbol_table, node.value[1]).err),
               Type("Error"))

\* The loop of visit_var_declaration over the children: a TypeAnnotation gives
\* var_type, any other child init_value_type.
RECURSIVE var_decl_children(_, _, _, _, _, _)
var_decl_children(self, children, i, var_type, init_value_type, is_initialized) ==
    IF i > Len(children)
    THEN [self |-> self, var_type |-> var_type, init_value_type |-> init_value_type,
          is_initialized |-> is_initialized]
    ELSE Only({ IF children[i].node_type = "TypeAnnotation"
                THEN var_decl_children(child.self, children, i + 1, child.type,
                                       init_value_type, is_initialized)
                ELSE var_decl_children(child.self, children, i + 1, var_type,
                                       child.type, TRUE)
              : child \in { visit_node(self, children[i]) } })

\* visit_var_declaration from the check against the initializer on.
var_decl_typed(self, node, var_type, init_value_type, is_initialized) ==
    Visit(table_call(
              IF /\ is_initialized
                 /\ init_value_type # Type("Error")
                 /\ var_type # Type("Error")
                 /\ ~can_assign_from(var_type, init_value_type).ok
              THEN add_error(self, with_position(
                                       "TypeMismatch", "degiskeni icin tip uyusmazligi",
                                       << node.value[1], var_type, init_value_type >>,
                                       line_of(node.token), column_of(node.token)))
              ELSE self,
              define_variable(self.symbol_table, node.value[1], var_type,
                              node.metadata = Some("mutable"), is_initialized,
                              line_of(node.token), column_of(node.token))),
          var_type)

\* visit_var_declaration once the children have been visited and the type of
\* the initializer has been taken for a var_type left Unknown.
var_decl_inferred(self, node, var_type, init_value_type, is_initialized) ==
    IF var_type = Type("Unknown")
    THEN var_decl_typed(add_error(self, SemanticError_new(
                                            "Other",
                                            "degiskeninin tipi belirtilmemis ve cikarsanamadi",
                                            << node.value[1] >>, node.token)),
                        node, Type("Error"), init_value_type, is_initialized)
    ELSE var_decl_typed(self, node, var_type, init_value_type, is_initialized)

visit_var_declaration(self, node) ==
    Only({ var_decl_inferred(
               seen.self, node,
               IF /\ seen.var_type = Type("Unknown")
                  /\ seen.init_value_type \notin { Type("Unknown"), Type("Error") }
               THEN seen.init_value_type ELSE seen.var_type,
               seen.init_value_type, seen.is_initialized)
         : seen \in { var_decl_children(self, node.children, 1, Type("Unknown"),
                                        Type("Unknown"), FALSE) } })

\* The first TypeAnnotation among the children of a ParamDecl, 0 without one.
FirstAnnotation(children) ==
    IF \A i \in 1..Len(children) : children[i].node_type # "TypeAnnotation" THEN 0
    ELSE CHOOSE i \in 1..Len(children) :
            /\ children[i].node_type = "TypeAnnotation"
            /\ \A j \in 1..(i - 1) : children[j].node_type # "TypeAnnotation"

\* A parameter's type once its annotation, if any, has been visited.
param_typed(self, node, param_type) ==
    IF param_type = Type("Unknown")
    THEN Visit(add_error(self, SemanticError_new("Other",
                                                 "parametresinin tipi belirtilmemis",
                                                 << node.value[1] >>, node.token)),
               Type("Error"))
    ELSE Visit(self, param_type)

visit_param_declaration(self, node) ==
    IF FirstAnnotation(node.children) = 0 THEN param_typed(self, node, Type("Unknown"))
    ELSE Only({ param_typed(annotation.self, node, annotation.type)
              : annotation \in { visit_node(self,
                                            node.children[FirstAnnotation(node.children)]) } })

\* The ParamDecl arm of the loop of visit_function_declaration, which repeats
\* visit_param_declaration and builds the parameter's Symbol.
param_symbol(node, param_type) ==
    Symbol(node.value[1], param_type, "Parameter", FALSE, 0, line_of(node.token),
           column_of(node.token))

\* The loop of visit_function_declaration over the children.
RECURSIVE func_decl_children(_, _, _, _, _, _)
func_decl_children(self, children, i, param_symbols, return_type, body_node) ==
    IF i > Len(children)
    THEN [self |-> self, param_symbols |-> param_symbols, return_type |-> return_type,
          body_node |-> body_node]
    ELSE CASE children[i].node_type = "ParamDecl"
                -> Only({ func_decl_children(
                              param.self, children, i + 1,
                              Append(param_symbols, param_symbol(children[i], param.type)),
                              return_type, body_node)
                        : param \in { visit_param_declaration(self, children[i]) } })
           [] children[i].node_type = "TypeAnnotation"
                -> Only({ func_decl_children(annotation.self, children, i + 1,
                                             param_symbols, annotation.type, body_node)
                        : annotation \in { visit_node(self, children[i]) } })
           [] children[i].node_type = "BlockStmt"
                -> func_decl_children(self, children, i + 1, param_symbols, return_type,
                                      Some(children[i]))
           [] OTHER
                -> func_decl_children(
                       add_error(self, SemanticError_new("Other", "Beklenmeyen dugum tipi",
                                                         << children[i].node_type >>,
                                                         children[i].token)),
                       children, i + 1, param_symbols, return_type, body_node)

\* The parameters defined in the function's scope, each at the current level
\* and initialized.
RECURSIVE define_parameters(_, _, _)
define_parameters(self, param_symbols, i) ==
    IF i > Len(param_symbols) THEN self
    ELSE define_parameters(
             table_call(self,
                        define_symbol(self.symbol_table,
                                      [param_symbols[i] EXCEPT
                                          !.scope_level = current_level(self.symbol_table),
                                          !.is_initialized = TRUE])),
             param_symbols, i + 1)

\* The body visited with current_function_return_type set, which is put back
\* to `prev_return_type` before the function's scope is left.
function_body_visited(self, prev_return_type) ==
    [self EXCEPT !.current_function_return_type = prev_return_type,
                 !.symbol_table = exit_scope(self.symbol_table).table]

function_body(self, param_symbols, return_type, body) ==
    Only({ function_body_visited(visited_body.self, self.current_function_return_type)
         : visited_body \in {
               visit_node([define_parameters(
                               [self EXCEPT !.symbol_table =
                                                enter_scope(@, "Function")],
                               param_symbols, 1)
                              EXCEPT !.current_function_return_type = Some(return_type)],
                          body) } })

\* visit_function_declaration once the children have been looked at.
func_decl_defined(self, node, param_symbols, return_type, body_node) ==
    Visit(IF body_node = None THEN self
          ELSE function_body(self, param_symbols, return_type, body_node[1]),
          Function([i \in 1..Len(param_symbols) |-> param_symbols[i].symbol_type],
                   return_type))

\* A visit that registers the function only after its body has been visited.
visit_function_declaration_body_first(self, node) ==
    Only({ Only({ Visit(table_call(declared.self,
                                   define_function(declared.self.symbol_table,
                                                   node.value[1], seen.return_type,
                                                   seen.param_symbols,
                                                   line_of(node.token),
                                                   column_of(node.token))),
                        declared.type)
                : declared \in { func_decl_defined(seen.self, node, seen.param_symbols,
                                                   seen.return_type, seen.body_node) } })
         : seen \in { func_decl_children(self, node.children, 1, << >>, Type("Void"),
                                         None) } })

visit_function_declaration(self, node) ==
    Only({ func_decl_defined(
               table_call(seen.self,
                          define_function(seen.self.symbol_table, node.value[1],
                                          seen.return_type, seen.param_symbols,
                                          line_of(node.token), column_of(node.token))),
               node, seen.param_symbols, seen.return_type, seen.body_node)
         : seen \in { func_decl_children(self, node.children, 1, << >>, Type("Void"),
                                         None) } })

\* The children of a block visited in order; the type is the last one's.
RECURSIVE visit_children(_, _, _, _)
visit_children(self, children, i, last_type) ==
    IF i > Len(children) THEN Visit(self, last_type)
    ELSE Only({ visit_children(child.self, children, i + 1, child.type)
              : child \in { visit_node(self, children[i]) } })

\* A node visited inside a scope of its own.
exit_after(visit) ==
    [visit.self EXCEPT !.symbol_table = exit_scope(@).table]

visit_scoped(self, node, scope_type) ==
    exit_after(visit_node([self EXCEPT !.symbol_table = enter_scope(@, scope_type)],
                          node))

\* A visit of a block in the scope it is met in, with no scope of its own.
visit_block_in_place(self, node) ==
    Only({ Visit(last.self, last.type)
         : last \in { visit_children(self, node.children, 1, Type("Void")) } })

\* A visit of a block that leaves the Block scope open.
visit_block_unclosed(self, node) ==
    Only({ Visit(last.self, last.type)
         : last \in { visit_children([self EXCEPT !.symbol_table =
                                                      enter_scope(@, "Block")],
                                     node.children, 1, Type("Void")) } })

visit_block(self, node) ==
    Only({ Visit(exit_after(last), last.type)
         : last \in { visit_children([self EXCEPT !.symbol_table =
                                                      enter_scope(@, "Block")],
                                     node.children, 1, Type("Void")) } })

\* The condition of an if or a while: an error unless it is Bool or Error.
condition_checked(visit, node, message) ==
    IF visit.type \notin { Type("Bool"), Type("Error") }
    THEN add_error(visit.self, SemanticError_new("TypeMismatch", message,
                                                 << visit.type >>, node.token))
    ELSE visit.self

if_branches(self, node) ==
    IF Len(node.children) > 2
    THEN visit_scoped(visit_scoped(self, node.children[2], "If"), node.children[3],
                      "If")
    ELSE visit_scoped(self, node.children[2], "If")

visit_if_stmt(self, node) ==
    IF Len(node.children) < 2
    THEN Visit(add_error(self, SemanticError_new("Other", "If ifadesi eksik", << >>,
                                                 node.token)),
               Type("Error"))
    ELSE Visit(if_branches(condition_checked(visit_node(self, node.children[1]), node,
                                             "If kosulu boolean tipinde olmali"),
                           node),
               Type("Void"))

\* The body of a loop visited with in_loop set, which is put back afterwards.
loop_body(self, body, prev_in_loop) ==
    [visit_node([self EXCEPT !.in_loop = TRUE], body).self
        EXCEPT !.in_loop = prev_in_loop]

while_body(self, node) ==
    [loop_body([self EXCEPT !.symbol_table = enter_scope(@, "Loop")],
               node.children[2], self.in_loop)
        EXCEPT !.symbol_table = exit_scope(@).table]

visit_while_stmt(self, node) ==
    IF Len(node.children) < 2
    THEN Visit(add_error(self, SemanticError_new("Other", "While ifadesi eksik", << >>,
                                                 node.token)),
               Type("Error"))
    ELSE Visit(while_body(condition_checked(visit_node(self, node.children[1]), node,
                                            "While kosulu boolean tipinde olmali"),
                          node),
               Type("Void"))

\* visit_for_stmt once the range has been visited: the element type, the loop
\* variable, the body.
for_range_visited(self, node, range_type) ==
    [loop_body(
         table_call(
             IF range_type.tag \in { "Array", "String", "Error" } THEN self
             ELSE add_error(self, SemanticError_new(
                                      "TypeMismatch", "tipi uzerinde dongulenemez",
                                      << range_type >>, node.children[2].token)),
             define_variable(self.symbol_table, node.children[1].value[1],
                             CASE range_type.tag = "Array" -> range_type.args[1]
                               [] range_type.tag = "String" -> Type("String")
                               [] OTHER -> Type("Error"),
                             FALSE, TRUE, line_of(node.children[1].token),
                             column_of(node.children[1].token))),
         node.children[3], self.in_loop)
        EXCEPT !.symbol_table = exit_scope(@).table]

visit_for_stmt(self, node) ==
    IF Len(node.children) < 3
    THEN Visit(add_error(self, SemanticError_new("Other", "For ifadesi eksik", << >>,
                                                 node.token)),
               Type("Error"))
    ELSE Only({ Visit(for_range_visited(range.self, node, range.type), Type("Void"))
              : range \in { visit_node([self EXCEPT !.symbol_table =
                                                        enter_scope(@, "Loop")],
                                       node.children[2]) } })

\* visit_return_stmt once the value, if any, has been visited.
return_value_visited(self, node, return_value_type) ==
    IF self.current_function_return_type = None
    THEN add_error(self, SemanticError_new(
                             "InvalidReturn",
                             "Return ifadesi yalnizca fonksiyon icinde kullanilabilir",
                             << >>, node.token))
    ELSE IF /\ self.current_function_return_type[1] # Type("Error")
            /\ return_value_type # Type("Error")
            /\ ~can_assign_from(self.current_function_return_type[1],
                                return_value_type).ok
    THEN add_error(self, SemanticError_new(
                             "InvalidReturn", "Donus tipi uyusmazligi",
                             << self.current_function_return_type[1],
                                return_value_type >>,
                             node.token))
    ELSE self

visit_return_stmt(self, node) ==
    IF node.children = << >>
    THEN Visit(return_value_visited(self, node, Type("Void")), Type("Void"))
    ELSE Only({ Visit(return_value_visited(value.self, node, value.type), Type("Void"))
              : value \in { visit_node(self, node.children[1]) } })

\* A check for `main` that takes a symbol of any kind for the entry point.
program_visited_any_kind(self) ==
    IF ~resolve(self.symbol_table, "main").ok
    THEN add_error(self, SemanticError_new("Other", "'main' fonksiyonu tanimlanmamis",
                                           << >>, None))
    ELSE table_call(self, mark_used(self.symbol_table, "main"))

\* The check for `main` that ends visit_program.
program_visited(self) ==
    IF ~resolve(self.symbol_table, "main").ok
    THEN add_error(self, SemanticError_new("Other", "'main' fonksiyonu tanimlanmamis",
                                           << >>, None))
    ELSE table_call(IF resolve(self.symbol_table, "main").value.kind # "Function"
                    THEN add_error(self, SemanticError_new(
                                             "Other", "'main' bir fonksiyon olmalidir",
                                             << >>, None))
                    ELSE self,
                    mark_used(self.symbol_table, "main"))

visit_program(self, node) ==
    Visit(program_visited(visit_children(self, node.children, 1, Type("Void")).self),
          Type("Void"))

\* The loop of visit_struct_declaration over the fields.
RECURSIVE visit_fields(_, _, _)
visit_fields(self, children, i) ==
    IF i > Len(children) THEN self
    ELSE IF children[i].node_type = "VarDecl"
    THEN visit_fields(visit_node(self, children[i]).self, children, i + 1)
    ELSE visit_fields(add_error(self, SemanticError_new(
                                          "Other", "Struct icinde beklenmeyen dugum tipi",
                                          << children[i].node_type >>,
                                          children[i].token)),
                      children, i + 1)

\* A symbol of visit_struct_declaration or visit_module_declaration defined,
\* then the members visited in a scope of their own by `members`.
declared_with_scope(self, node, symbol_type, kind) ==
    define_symbol(self.symbol_table,
                  Symbol(node.value[1], symbol_type, kind, FALSE,
                         current_level(self.symbol_table), line_of(node.token),
                         column_of(node.token)))

visit_struct_declaration(self, node) ==
    IF ~declared_with_scope(self, node, Struct(node.value[1]), "Type").result.ok
    THEN Visit(add_error(self, declared_with_scope(self, node, Struct(node.value[1]),
                                                   "Type").result.err),
               Type("Error"))
    ELSE Visit([visit_fields([self EXCEPT !.symbol_table =
                                 enter_scope(declared_with_scope(
                                                 self, node, Struct(node.value[1]),
                                                 "Type").table,
                                             "Struct")],
                             node.children, 1)
                  EXCEPT !.symbol_table = exit_scope(@).table],
               Struct(node.value[1]))

\* The loop of visit_impl_declaration over the methods.
RECURSIVE visit_methods(_, _, _)
visit_methods(self, children, i) ==
    IF i > Len(children) THEN self
    ELSE IF children[i].node_type = "FuncDecl"
    THEN visit_methods(visit_node(self, children[i]).self, children, i + 1)
    ELSE visit_methods(add_error(self, SemanticError_new(
                                           "Other", "Impl icinde beklenmeyen dugum tipi",
                                           << children[i].node_type >>,
                                           children[i].token)),
                       children, i + 1)

visit_impl_declaration(self, node) ==
    IF resolve_type(self.symbol_table, node.value[1]).ok
    THEN Visit([visit_methods([self EXCEPT !.symbol_table = enter_scope(@, "Impl")],
                              node.children, 1)
                  EXCEPT !.symbol_table = exit_scope(@).table],
               Type("Void"))
    ELSE Visit(add_error(self, SemanticError_new(
                                   "Other", "struct'i tanimli degil, impl yapilamaz",
                                   << node.value[1] >>, node.token)),
               Type("Error"))

Module(name) == [Type("Module") EXCEPT !.name = name]

visit_module_declaration(self, node) ==
    IF ~declared_with_scope(self, node, Module(node.value[1]), "Module").result.ok
    THEN Visit(add_error(self, declared_with_scope(self, node, Module(node.value[1]),
                                                   "Module").result.err),
               Type("Error"))
    ELSE Visit(exit_after(visit_children(
                              [self EXCEPT !.symbol_table =
                                  enter_scope(declared_with_scope(
                                                  self, node, Module(node.value[1]),
                                                  "Module").table,
                                              "Module")],
                              node.children, 1, Type("Void"))),
               Module(node.value[1]))

\* visit_member_expr once the expression before the dot has been visited.
member_of(self, node, struct_expr_type) ==
    IF struct_expr_type.tag = "Struct" THEN Visit(self, Type("Int"))
    ELSE Visit(add_error(self, SemanticError_new(
                                   "TypeMismatch", "'.' operatoru struct tipi bekler",
                                   << struct_expr_type >>, node.token)),
               Type("Error"))

visit_member_expr(self, node) ==
    IF Len(node.children) < 1
    THEN Visit(add_error(self, SemanticError_new("Other", "Uye erisimi ifadesi eksik",
                                                 << >>, node.token)),
               Type("Error"))
    ELSE Only({ member_of(struct_expr.self, node, struct_expr.type)
              : struct_expr \in { visit_node(self, node.children[1]) } })

\* visit_index_expr once the array and the index have been visited.
index_of(self, node, array_expr_type, index_expr_type) ==
    CASE array_expr_type.tag = "Array" -> Visit(self, array_expr_type.args[1])
      [] array_expr_type = Type("String") -> Visit(self, Type("String"))
      [] array_expr_type = Type("Error") -> Visit(self, Type("Error"))
      [] OTHER
            -> Visit(add_error(self, SemanticError_new(
                                         "TypeMismatch",
                                         "'[]' operatoru dizi veya string tipi bekler",
                                         << array_expr_type >>, node.token)),
                     Type("Error"))

index_checked(self, node, array_expr_type, index_expr_type) ==
    index_of(IF index_expr_type \notin { Type("Int"), Type("Error") }
             THEN add_error(self, SemanticError_new(
                                      "TypeMismatch",
                                      "Dizin ifadesi integer tipinde olmali",
                                      << index_expr_type >>, node.children[2].token))
             ELSE self,
             node, array_expr_type, index_expr_type)

visit_index_expr(self, node) ==
    IF Len(node.children) < 2
    THEN Visit(add_error(self, SemanticError_new("Other", "Dizin erisimi ifadesi eksik",
                                                 << >>, node.token)),
               Type("Error"))
    ELSE Only({
         Only({ index_checked(index_expr.self, node, array_expr.type, index_expr.type)
              : index_expr \in { visit_node(array_expr.self, node.children[2]) } })
              : array_expr \in { visit_node(self, node.children[1]) } })

\* visit_break_stmt and visit_continue_stmt.
visit_jump_stmt(self, node, message) ==
    Visit(IF self.in_loop THEN self
          ELSE add_error(self, SemanticError_new("Other", message, << >>, node.token)),
          Type("Void"))

visit_node(self, node) ==
    CASE node.node_type = "Program" -> visit_program(self, node)
      [] node.node_type = "VarDecl" -> visit_var_declaration(self, node)
      [] node.node_type = "FuncDecl" -> visit_function_declaration(self, node)
      [] node.node_type = "ParamDecl" -> visit_param_declaration(self, node)
      [] node.node_type = "TypeAnnotation" -> visit_type_annotation(self, node)
      [] node.node_type = "BlockStmt" -> visit_block(self, node)
      [] node.node_type = "IfStmt" -> visit_if_stmt(self, node)
      [] node.node_type = "WhileStmt" -> visit_while_stmt(self, node)
      [] node.node_type = "ForStmt" -> visit_for_stmt(self, node)
      [] node.node_type = "ReturnStmt" -> visit_return_stmt(self, node)
      [] node.node_type = "ExprStmt" -> visit_expr_stmt(self, node)
      [] node.node_type = "BinaryExpr" -> visit_binary_expr(self, node)
      [] node.node_type = "UnaryExpr" -> visit_unary_expr(self, node)
      [] node.node_type = "LiteralExpr" -> visit_literal(self, node)
      [] node.node_type = "IdentifierExpr" -> visit_identifier(self, node)
      [] node.node_type = "CallExpr" -> visit_call_expr(self, node)
      [] node.node_type = "GroupExpr" -> visit_group_expr(self, node)
      [] node.node_type = "StructDecl" -> visit_struct_declaration(self, node)
      [] node.node_type = "ImplDecl" -> visit_impl_declaration(self, node)
      [] node.node_type = "MemberExpr" -> visit_member_expr(self, node)
      [] node.node_type = "IndexExpr" -> visit_index_expr(self, node)
      [] node.node_type = "BreakStmt"
            -> visit_jump_stmt(self, node,
                               "Break ifadesi sadece dongu icinde kullanilabilir")
      [] node.node_type = "ContinueStmt"
            -> visit_jump_stmt(self, node,
                               "Continue ifadesi sadece dongu icinde kullanilabilir")
      [] node.node_type = "ModDecl" -> visit_module_declaration(self, node)
      [] OTHER
            -> Visit(add_error(self, SemanticError_new(
                                         "Other", "Desteklenmeyen AST dugum tipi",
                                         << node.node_type >>, node.token)),
                     Type("Error"))

\* check_unused_variables on the vector `unused` of get_unused_symbols.
RECURSIVE warn_unused(_, _, _)
warn_unused(self, unused, i) ==
    IF i > Len(unused) THEN self
    ELSE warn_unused(
             IF unused[i].kind = "Function" /\ unused[i].name = "main" THEN self
             ELSE add_warning(self, with_position(
                                        "Other", "tanimlandi fakat hic kullanilmadi",
                                        << unused[i].name, unused[i].kind >>,
                                        unused[i].line, unused[i].column)),
             unused, i + 1)

\* check_uninitialized_variables on the vector of get_uninitialized_symbols.
RECURSIVE report_uninitialized(_, _, _)
report_uninitialized(self, uninitialized, i) ==
    IF i > Len(uninitialized) THEN self
    ELSE report_uninitialized(
             add_error(self, with_position(
                                 "Other", "degiskeni kullanilmadan once baslatilmamis",
                                 << uninitialized[i].name >>,
                                 uninitialized[i].line, uninitialized[i].column)),
             uninitialized, i + 1)

(***************************************************************************)
(* SemanticAnalyzer::analyze on a Program node, step by step: errors.clear *)
(* and the visit of each child of the Program, the end of visit_program,   *)
(* check_unused_variables, check_uninitialized_variables, the return.      *)
(***************************************************************************)
\* analyze clears the errors and visit_node enters visit_program.
\* An analyze that starts from a new symbol table as well.
Analyze_recreating_table ==
    /\ position = "analyze"
    /\ analyzer' = [analyzer EXCEPT !.errors = << >>, !.symbol_table = SymbolTable_new]
    /\ position' = "visit_program"
    /\ UNCHANGED <<ast, visited, analysis, report, lexvars, parservars,
                   tablevars, typevars>>

Analyze ==
    /\ position = "analyze"
    /\ analyzer' = [analyzer EXCEPT !.errors = << >>]
    /\ position' = "visit_program"
    /\ UNCHANGED <<ast, visited, analysis, report, lexvars, parservars,
                   tablevars, typevars>>

\* One turn of the loop of visit_program over the children.
VisitChild ==
    /\ position = "visit_program"
    /\ visited < Len(ast.children)
    /\ analyzer' = visit_node(analyzer, ast.children[visited + 1]).self
    /\ visited' = visited + 1
    /\ UNCHANGED <<ast, position, analysis, report, lexvars, parservars,
                   tablevars, typevars>>

\* The loop is over: visit_program looks for `main` and returns.
VisitProgramReturn ==
    /\ position = "visit_program"
    /\ visited = Len(ast.children)
    /\ analyzer' = program_visited(analyzer)
    /\ position' = "check_unused_variables"
    /\ UNCHANGED <<ast, visited, analysis, report, lexvars, parservars,
                   tablevars, typevars>>

CheckUnusedVariables ==
    /\ position = "check_unused_variables"
    /\ \E unused \in get_unused_symbols(analyzer.symbol_table) :
          analyzer' = warn_unused(analyzer, unused, 1)
    /\ position' = "check_uninitialized_variables"
    /\ UNCHANGED <<ast, visited, analysis, report, lexvars, parservars,
                   tablevars, typevars>>

CheckUninitializedVariables ==
    /\ position = "check_uninitialized_variables"
    /\ \E uninitialized \in get_uninitialized_symbols(analyzer.symbol_table) :
          analyzer' = report_uninitialized(analyzer, uninitialized, 1)
    /\ position' = "return"
    /\ UNCHANGED <<ast, visited, analysis, report, lexvars, parservars,
                   tablevars, typevars>>

AnalyzeReturn ==
    /\ position = "return"
    /\ analysis' = Append(analysis, analyzer.errors)
    /\ position' = "returned"
    /\ UNCHANGED <<ast, analyzer, visited, report, lexvars, parservars,
                   tablevars, typevars>>

\* analyze_with_reports on the vector analyze has just returned.
analyze_with_reports(returned) ==
    [success |-> \A i \in 1..Len(returned) : returned[i].is_warning,
     errors |-> returned]

AnalyzeWithReportsReturn ==
    /\ position = "returned"
    /\ report' = Some(analyze_with_reports(Last(analysis)))
    /\ position' = "reported"
    /\ UNCHANGED <<ast, analyzer, visited, analysis, lexvars, parservars,
                   tablevars, typevars>>

\* At most MaxRuns runs of analyze on one analyzer.
MaxRuns == 2

reset_keeping_table(self) ==
    [self EXCEPT !.current_function_return_type = None, !.errors = << >>,
                 !.in_loop = FALSE]

reset(self) ==
    [self EXCEPT !.symbol_table = SymbolTable_new,
                 !.current_function_return_type = None, !.errors = << >>,
                 !.in_loop = FALSE]

\* reset between two runs, then analyze is called on the same AST again.
Reset ==
    /\ position = "reported"
    /\ Len(analysis) < MaxRuns
    /\ analyzer' = reset(analyzer)
    /\ visited' = 0
    /\ position' = "analyze"
    /\ UNCHANGED <<ast, analysis, report, lexvars, parservars, tablevars, typevars>>

(***************************************************************************)
(* The programs the analyzer is run on: what the parser builds from a      *)
(* token vector that holds declarations only.                              *)
(***************************************************************************)
MaxDecls == 2

\* The children of the Program node parse_program builds, or << "Err" >> at the
\* first declaration that does not parse.
RECURSIVE parse_declarations(_, _, _)
parse_declarations(toks, cur, children) ==
    IF cur > Len(toks) THEN children
    ELSE Only({ IF declaration.ok
                THEN parse_declarations(toks, declaration.cur,
                                        Append(children, declaration.node))
                ELSE << "Err" >>
              : declaration \in { parse_declaration(toks, cur) } })

Parsed(items) ==
    parse_result(<< >>, parse_declarations(MkTokens(items), 1, << >>)).node

\* `let NAME [: TYPE] = INITIALIZER ;`
AnalyzerNames == { "x", "y" }
AnalyzerAnnotations == { "", "int", "float" }
AnalyzerInitializers ==
    { << Lit("5") >>, << << "FloatLiteral", "5.0" >> >>, << Id("x") >> }

VarDeclItems(name, annotation, initializer) ==
    << K("Let"), Id(name) >>
        \o (IF annotation = "" THEN << >> ELSE << K("Colon"), Id(annotation) >>)
        \o << K("Assign") >> \o initializer \o << K("Semicolon") >>

VarDecls ==
    { VarDeclItems(name, annotation, initializer) :
        name \in AnalyzerNames, annotation \in AnalyzerAnnotations,
        initializer \in AnalyzerInitializers }

RECURSIVE Concat(_, _)
Concat(seqs, i) == IF i > Len(seqs) THEN << >> ELSE seqs[i] \o Concat(seqs, i + 1)

\* Every program of one to MaxDecls such declarations.
VarDeclPrograms ==
    { Concat(decls, 1) : decls \in UNION { [1..n -> VarDecls] : n \in 1..MaxDecls } }

\* Programs that between them hold every node the model of the analyzer visits.
AnalyzerSamples ==
    { << K("Fn"), Id("main"), K("LeftParen"), K("RightParen"), K("LeftBrace"),
         K("RightBrace") >>,
      << K("Let"), K("Mut"), Id("x"), K("Colon"), Id("int"), K("Assign"), Lit("5"),
         K("Plus"), Lit("3"), K("Semicolon"),
         Id("x"), K("Assign"), << "FloatLiteral", "1.5" >>, K("Semicolon"),
         Id("x"), K("PlusAssign"), << "StringLiteral", "s" >>, K("Semicolon"),
         Lit("1"), K("Caret"), Lit("2"), K("Semicolon") >>,
      << K("Fn"), Id("f"), K("LeftParen"), Id("a"), K("Colon"), Id("int"), K("Comma"),
         Id("b"), K("Colon"), Id("float"), K("RightParen"), K("Arrow"), Id("int"),
         K("LeftBrace"), K("Return"), Id("a"), K("Plus"), Id("b"), K("Semicolon"),
         K("RightBrace"),
         K("Fn"), Id("main"), K("LeftParen"), K("RightParen"), K("LeftBrace"),
         K("Let"), Id("r"), K("Assign"), Id("f"), K("LeftParen"), Lit("1"), K("Comma"),
         K("LeftParen"), K("Minus"), Lit("2"), K("RightParen"), K("RightParen"),
         K("Semicolon"),
         Id("f"), K("LeftParen"), Id("r"), K("RightParen"), K("Semicolon"),
         K("RightBrace") >>,
      << K("Let"), Id("a"), K("Assign"), Lit("1"), K("Semicolon"),
         K("If"), Id("a"), K("Equal"), << "FloatLiteral", "2.0" >>, K("LeftBrace"),
         K("Let"), Id("a"), K("Assign"), << "BoolLiteral", "true" >>, K("Semicolon"),
         K("RightBrace"), K("Else"), K("LeftBrace"), K("Return"), K("Semicolon"),
         K("RightBrace"),
         K("While"), Id("a"), K("LeftBrace"), Id("b"), K("Semicolon"), K("RightBrace"),
         K("For"), Id("i"), K("In"), << "StringLiteral", "s" >>, K("LeftBrace"),
         Id("i"), K("Semicolon"), K("RightBrace"),
         K("Let"), Id("p"), K("Colon"), Id("P"), K("Assign"), Id("q"),
         K("Semicolon"),
         K("Let"), Id("main"), K("Colon"), Id("q"), K("Assign"), K("Minus"),
         << "BoolLiteral", "true" >>, K("Semicolon") >> }

\* Declarations and statements about the entry point, about functions that are
\* or are not called and about variables that are or are not assigned.
FuncDeclItems(name) ==
    << K("Fn"), Id(name), K("LeftParen"), K("RightParen"), K("LeftBrace"),
       K("RightBrace") >>

LetItems(mutable, name, initializer) ==
    << K("Let") >> \o (IF mutable THEN << K("Mut") >> ELSE << >>)
        \o << Id(name), K("Assign") >> \o initializer \o << K("Semicolon") >>

AssignItems(name, value) == << Id(name), K("Assign") >> \o value \o << K("Semicolon") >>

EntryDecls ==
    { FuncDeclItems("main"),
      FuncDeclItems("f"),
      LetItems(FALSE, "main", << Lit("5") >>),
      LetItems(FALSE, "x", << Lit("5") >>),
      LetItems(TRUE, "x", << Lit("5") >>),
      AssignItems("x", << Lit("7") >>),
      AssignItems("x", << << "FloatLiteral", "7.0" >> >>),
      << Id("f"), K("LeftParen"), K("RightParen"), K("Semicolon") >>,
      << Id("x"), K("Semicolon") >>,
      << K("Mod"), Id("m"), K("LeftBrace") >> \o FuncDeclItems("main")
          \o << K("RightBrace") >>,
      << K("LeftBrace") >> \o FuncDeclItems("main") \o << K("RightBrace") >>,
      << K("Struct"), Id("s"), K("LeftBrace"), Id("main"), K("Colon"), Id("int"),
         K("Comma"), K("RightBrace") >>,
      << K("Impl"), Id("s"), K("LeftBrace") >> \o FuncDeclItems("main")
          \o << K("RightBrace") >> }

EntryPrograms ==
    { Concat(decls, 1) : decls \in UNION { [1..n -> EntryDecls] : n \in 1..MaxDecls } }

\* `fn NAME(PARAMS) [-> TYPE] { BODY }` and `return [VALUE];`
FuncItems(name, params, annotation, body) ==
    << K("Fn"), Id(name), K("LeftParen") >> \o params \o << K("RightParen") >>
        \o (IF annotation = "" THEN << >> ELSE << K("Arrow"), Id(annotation) >>)
        \o << K("LeftBrace") >> \o body \o << K("RightBrace") >>

ReturnItems(value) == << K("Return") >> \o value \o << K("Semicolon") >>

ReturnValues == { << >>, << Lit("5") >>, << << "FloatLiteral", "5.0" >> >> }

\* A return in a function, at top level, and after a nested function.
ReturnPrograms ==
    { FuncItems("f", << >>, annotation, ReturnItems(value)) :
        annotation \in AnalyzerAnnotations, value \in ReturnValues }
    \cup { ReturnItems(value) : value \in ReturnValues }
    \cup { FuncItems("f", << >>, outer,
                     FuncItems("g", << >>, inner, << >>) \o ReturnItems(value)) :
             outer \in { "int", "float" }, inner \in { "int", "float" },
             value \in ReturnValues }

CallItems(name, arguments) ==
    << Id(name), K("LeftParen") >> \o arguments \o << K("RightParen"), K("Semicolon") >>

BlockItems(body) == << K("LeftBrace") >> \o body \o << K("RightBrace") >>

\* A function that calls itself or an unknown function; `let x = x;` in a
\* block, with and without an x in the Global scope.
RegistrationPrograms ==
    { FuncItems("f", << >>, "", CallItems(callee, << >>)) : callee \in { "f", "g" } }
    \cup { outer \o BlockItems(LetItems(FALSE, "x", << Id("x") >>)) :
             outer \in { << >>, LetItems(FALSE, "x", << Lit("5") >>) } }

ParamItems(name, annotation) == << Id(name), K("Colon"), Id(annotation) >>

CallArguments ==
    { << >>, << Lit("5") >>, << << "FloatLiteral", "5.0" >> >>,
      << Lit("5"), K("Comma"), << "FloatLiteral", "5.0" >> >> }

\* What `f` is when it is called: nothing, a variable, or a function of one
\* or two parameters.
CalleeDeclarations ==
    { << >>, LetItems(FALSE, "f", << Lit("5") >>) }
    \cup { FuncItems("f", ParamItems("a", annotation), "", << >>) :
             annotation \in { "int", "float" } }
    \cup { FuncItems("f", ParamItems("a", first) \o << K("Comma") >> \o ParamItems("b", second),
                     "", << >>) :
             first \in { "int", "float" }, second \in { "int", "float" } }

CallPrograms ==
    { callee \o CallItems("f", arguments) :
        callee \in CalleeDeclarations, arguments \in CallArguments }

\* A declaration of y, never used, in a scope of each type but Global.
ScopePrograms ==
    { FuncItems("f", << >>, "", LetItems(FALSE, "y", << Lit("5") >>)),
      BlockItems(LetItems(FALSE, "y", << Lit("5") >>)),
      << K("While"), << "BoolLiteral", "true" >> >>
          \o BlockItems(LetItems(FALSE, "y", << Lit("5") >>)),
      << K("For"), Id("i"), K("In"), << "StringLiteral", "s" >> >>
          \o BlockItems(LetItems(FALSE, "y", << Lit("5") >>)),
      << K("If"), << "BoolLiteral", "true" >> >>
          \o BlockItems(LetItems(FALSE, "y", << Lit("5") >>)) \o << K("Else") >>
          \o BlockItems(LetItems(FALSE, "y", << Lit("5") >>)),
      << K("Struct"), Id("s"), K("LeftBrace"), Id("y"), K("Colon"), Id("int"),
         K("Comma"), K("RightBrace") >>,
      << K("Impl"), Id("s") >> \o BlockItems(FuncDeclItems("y")),
      << K("Mod"), Id("m") >> \o BlockItems(FuncDeclItems("y")) }

\* A function of two parameters whose body declares a variable.
ParameterPrograms ==
    { FuncItems("f", ParamItems(first, "int") \o << K("Comma") >>
                         \o ParamItems(second, "float"),
                "", LetItems(FALSE, declared, << Lit("5") >>)) :
        first \in { "a" }, second \in { "a", "b" }, declared \in { "a", "b", "c" } }

\* `L ^ R` as a statement, as an initializer and in the body of main, over
\* literals of every type and a name that is not declared.
CaretOperands ==
    { << Lit("1") >>, << << "FloatLiteral", "2.0" >> >>, << << "StringLiteral", "s" >> >>,
      << << "BoolLiteral", "true" >> >>, << Id("y") >> }

CaretPrograms ==
    UNION { { left \o << K("Caret") >> \o right \o << K("Semicolon") >>,
              LetItems(FALSE, "x", left \o << K("Caret") >> \o right),
              FuncItems("main", << >>, "",
                        left \o << K("Caret") >> \o right \o << K("Semicolon") >>) } :
            left \in CaretOperands, right \in CaretOperands }

AnalyzerInputs ==
    VarDeclPrograms \cup EntryPrograms \cup AnalyzerSamples \cup ReturnPrograms
        \cup RegistrationPrograms \cup CallPrograms \cup ScopePrograms
        \cup ParameterPrograms \cup CaretPrograms

InitAnalyze ==
    /\ \E items \in AnalyzerInputs : ast = Parsed(items)
    /\ analyzer = SemanticAnalyzer_new
    /\ visited = 0
    /\ position = "analyze"
    /\ analysis = None
    /\ report = None
    /\ LexerIdle
    /\ ParserIdle
    /\ TableIdle
    /\ TypesIdle

NextAnalyze ==
    \/ Analyze
    \/ VisitChild
    \/ VisitProgramReturn
    \/ CheckUnusedVariables
    \/ CheckUninitializedVariables
    \/ AnalyzeReturn
    \/ AnalyzeWithReportsReturn
    \/ Reset

SpecAnalyze == InitAnalyze /\ [][NextAnalyze]_vars

\* analyze is called again on the same analyzer and the same AST, with no
\* reset in between.
AnalyzeAgain ==
    /\ position = "reported"
    /\ Len(analysis) < MaxRuns
    /\ visited' = 0
    /\ position' = "analyze"
    /\ UNCHANGED <<ast, analyzer, analysis, report, lexvars, parservars, tablevars,
                   typevars>>

NextReanalyze ==
    \/ Analyze
    \/ VisitChild
    \/ VisitProgramReturn
    \/ CheckUnusedVariables
    \/ CheckUninitializedVariables
    \/ AnalyzeReturn
    \/ AnalyzeWithReportsReturn
    \/ AnalyzeAgain

SpecReanalyze == InitAnalyze /\ [][NextReanalyze]_vars

(***************************************************************************)
(* Properties of the lexer                                                 *)
(***************************************************************************)
TypesOf(ts) == [i \in 1..Len(ts) |-> ts[i].token_type]

RECURSIVE Join(_)
Join(chars) == IF chars = << >> THEN "" ELSE Head(chars) \o Join(Tail(chars))

\* The lexeme is a piece of the source text whose last character is a dot.
EndsWithDot(lexeme) ==
    \E i, j \in 1..Len(input) :
        i <= j /\ input[j] = "." /\ lexeme = Join(SubSeq(input, i, j))

\* C7: the sequence tokenize returns ends with an EOF token, holds exactly one
\* EOF token, and holds no Comment and no Whitespace token.
C7_TokenizeEndsWithOneEOF ==
    /\ \A i \in 1..Len(tokens) : tokens[i].token_type \notin { "Comment", "Whitespace" }
    /\ lex_done =>
          /\ tokens # << >>
          /\ tokens[Len(tokens)].token_type = "EOF"
          /\ Cardinality({ i \in 1..Len(tokens) : tokens[i].token_type = "EOF" }) = 1

\* tokenize has returned for a source that starts with a line comment.
C7_Witness ==
    /\ lex_done
    /\ input = << "/", "/", "\n", "1" >>
    /\ TypesOf(tokens) = << "IntLiteral", "EOF" >>

\* C8: every call of next_token returns a token (of a known kind, at a column that
\* did not underflow); a call made while input remains consumes at least one
\* character and a call made at the end of input returns EOF and ends tokenize, so
\* tokenize makes at most Len(input) + 1 calls.
C8_NextTokenConsumes ==
    /\ ~lex_done
    /\ lexer.position < Len(input) => lexer'.position > lexer.position
    /\ lexer.position = Len(input) => lex_done'
    /\ lexer'.position <= Len(input)
    /\ LET token == next_token(input, lexer).token
       IN  token.token_type \in TokenType /\ token.column >= 0 /\ token.line >= 1

C8_LexerTotalAndTerminating == [][C8_NextTokenConsumes]_vars

\* tokenize has returned for a source made of a lone `!`, an unrecognized
\* character and an unterminated string.
C8_Witness ==
    /\ lex_done
    /\ input = << "!", "\\", "\"", "a" >>
    /\ TypesOf(tokens) = << "Invalid", "Invalid", "Invalid", "EOF" >>

\* C9: a FloatLiteral token has a digit after its decimal point: no FloatLiteral
\* lexeme ends with the dot, whatever follows the dot in the source.
C9_FloatHasFractionDigit ==
    \A k \in 1..Len(tokens) :
        tokens[k].token_type = "FloatLiteral" => ~EndsWithDot(tokens[k].lexeme)

(***************************************************************************)
(* Properties of the parser                                                *)
(***************************************************************************)
Returned == presult # None

EndsWithEOF(toks) == toks # << >> /\ toks[Len(toks)].token_type = "EOF"

\* The parser stands at the EOF token tokenize appended, every declaration
\* before it was parsed without an error.
AtTrailingEOF ==
    /\ presult = None
    /\ current = Len(ptokens)
    /\ EndsWithEOF(ptokens)
    /\ errors = << >>

\* C1: on a lexer-produced token sequence whose declarations are all
\* well-formed, no parse error is recorded for the trailing EOF token (so that
\* parse returns Ok with one child per declaration).
C1_NoErrorForTrailingEOF == [][AtTrailingEOF => errors' = << >>]_vars

\* `let x = 1;` as the lexer hands it over: the error recorded for EOF makes
\* parse return Err although the one declaration was parsed.
C1_Witness ==
    /\ ptokens = ParserInput(<< K("Let"), Id("x"), K("Assign"), Lit("1"),
                                K("Semicolon") >>, TRUE)
    /\ Returned
    /\ ~presult[1].ok
    /\ Len(program) = 1
    /\ Len(errors) = 1
    /\ errors[1].found = "EOF"

\* C3: parse returns Ok(Program) exactly when no error was recorded; otherwise
\* it returns Err with every recorded error in order, and that list is not
\* empty.
C3_OkExactlyWhenNoErrors ==
    Returned =>
        /\ presult[1].ok <=> errors = << >>
        /\ presult[1].ok =>
              /\ presult[1].node.node_type = "Program"
              /\ presult[1].node.children = program
        /\ ~presult[1].ok =>
              /\ presult[1].errors = errors
              /\ presult[1].errors # << >>

\* parse has returned Err with two different errors, in the order recorded.
C3_Witness ==
    /\ Returned
    /\ ~presult[1].ok
    /\ Len(presult[1].errors) = 2
    /\ presult[1].errors[1].column < presult[1].errors[2].column
    /\ program # << >>

\* The tokens that start a declaration or statement, where synchronize stops.
DeclarationStarts ==
    { "Let", "Fn", "For", "If", "While", "Return", "Struct", "Impl", "Mod" }

StopsAt(toks, failure) ==
    { p \in failure..Len(toks) :
        toks[p].token_type \in DeclarationStarts \cup { "Semicolon" } }

Least(S) == CHOOSE p \in S : \A q \in S : p <= q

\* Where parsing resumes after a failure at `failure`: just after the first `;`
\* or just before the first declaration start, whichever comes first, or at the
\* end of input.
SyncTarget(toks, failure) ==
    IF StopsAt(toks, failure) = { } THEN Len(toks) + 1
    ELSE IF toks[Least(StopsAt(toks, failure))].token_type = "Semicolon"
    THEN Least(StopsAt(toks, failure)) + 1
    ELSE Least(StopsAt(toks, failure))

DeclarationFails ==
    /\ presult = None
    /\ current <= Len(ptokens)
    /\ ~parse_declaration(ptokens, current).ok

RecoverResumesAtSyncTarget ==
    DeclarationFails =>
        /\ current' = SyncTarget(ptokens, parse_declaration(ptokens, current).cur)
        /\ errors' = Append(errors, parse_declaration(ptokens, current).err)
        /\ program' = program

\* The positions of the `;` tokens of toks, in order.
Semicolons(toks) == { p \in 1..Len(toks) : toks[p].token_type = "Semicolon" }

WithoutEOF(toks) == IF EndsWithEOF(toks) THEN SubSeq(toks, 1, Len(toks) - 1) ELSE toks

Malformed(toks, first, semi) ==
    ~parse_declaration(SubSeq(toks, first, semi), 1).ok

\* toks is `A ; B ;` (then EOF or nothing), A and B without braces, and neither
\* `A ;` nor `B ;` parses as a declaration.
TwoMalformedDeclarations(toks) ==
    LET body == WithoutEOF(toks)
        semis == Semicolons(body)
    IN  /\ Cardinality(semis) = 2
        /\ Len(body) \in semis
        /\ \A p \in 1..Len(body) : body[p].token_type # "LeftBrace"
        /\ Malformed(body, 1, Least(semis))
        /\ Malformed(body, Least(semis) + 1, Len(body))

BothContributeAnError ==
    LET first_semi == Least(Semicolons(ptokens))
    IN  \E i, j \in 1..Len(errors) :
            /\ i < j
            /\ errors[i].column \in 1..first_semi
            /\ errors[j].column \in (first_semi + 1)..Len(WithoutEOF(ptokens))

\* C4: after a failed declaration the parser resumes just after the first `;`
\* at or after the failure point or just before the first declaration start,
\* whichever comes first (or at end of input); so two malformed declarations,
\* each followed by `;`, both contribute an error to the returned list.
C4_SynchronizeResumes ==
    /\ [][RecoverResumesAtSyncTarget]_vars
    /\ [](Returned /\ TwoMalformedDeclarations(ptokens) => BothContributeAnError)

\* `let ; let ;` has been parsed: two errors, one for each declaration.
C4_Witness ==
    /\ ptokens = ParserInput(<< K("Let"), K("Semicolon"), K("Let"),
                                K("Semicolon") >>, FALSE)
    /\ Returned
    /\ TwoMalformedDeclarations(ptokens)
    /\ Len(errors) = 2
    /\ errors[1].column = 2
    /\ errors[2].column = 4

\* The precedence levels, lowest binding first; a primary has rank 8.
AssignmentValues == { "=", "+=", "-=", "*=", "/=" }

Precedence(value) ==
    CASE value \in AssignmentValues -> 1
      [] value \in { "==", "!=" } -> 2
      [] value \in { ">", ">=", "<", "<=" } -> 3
      [] value \in { "+", "-" } -> 4
      [] value \in { "*", "/", "%" } -> 5
      [] value = "^" -> 7

Rank(node) ==
    CASE node.node_type = "BinaryExpr" -> Precedence(node.value[1])
      [] node.node_type = "UnaryExpr" -> 6
      [] OTHER -> 8

IsAssignment(node) ==
    node.node_type = "BinaryExpr" /\ node.value[1] \in AssignmentValues

\* Every node of a tree, the root included.
RECURSIVE Nodes(_)
Nodes(node) ==
    { node } \cup UNION { Nodes(node.children[i]) : i \in 1..Len(node.children) }

\* The tokens of an expression without calls and groups, left to right.
RECURSIVE Yield(_)
Yield(node) ==
    CASE node.node_type = "BinaryExpr"
           -> Yield(node.children[1]) \o node.token \o Yield(node.children[2])
      [] node.node_type = "UnaryExpr" -> node.token \o Yield(node.children[1])
      [] OTHER -> node.token

Plain(expr) ==
    \A node \in Nodes(expr) :
        node.node_type \in { "BinaryExpr", "UnaryExpr", "LiteralExpr", "IdentifierExpr" }

\* The tree is a tree of the tokens it was parsed from, in their order.
YieldsItsTokens(expr) ==
    Plain(expr) =>
        Yield(expr) = SubSeq(ptokens, Yield(expr)[1].column,
                             Yield(expr)[1].column + Len(Yield(expr)) - 1)

\* A binary operator's left operand binds at least as tightly as it and its
\* right operand binds tighter (left associativity); a unary operator's operand
\* is a unary, a power or a primary.
PrecedenceOrdered(expr) ==
    \A node \in Nodes(expr) :
        /\ node.node_type = "BinaryExpr" /\ ~IsAssignment(node) =>
              /\ Rank(node.children[1]) >= Rank(node)
              /\ Rank(node.children[2]) > Rank(node)
        /\ node.node_type = "UnaryExpr" => Rank(node.children[1]) >= 6

ExpressionStatements ==
    { program[i].children[1] : i \in { j \in 1..Len(program) :
                                         program[j].node_type = "ExprStmt" } }

\* C5: in every parsed expression the operator of the higher level is the
\* deeper node and operators of one non-assignment level associate to the left;
\* `1 + 2 * 3` is Add(1, Mul(2, 3)).
C5_PrecedenceAndLeftAssociativity ==
    \A expr \in ExpressionStatements :
        /\ YieldsItsTokens(expr)
        /\ PrecedenceOrdered(expr)

\* `1 + 2 * 3;` has been parsed as Add(1, Mul(2, 3)).
C5_Witness ==
    /\ ptokens = ParserInput(<< Lit("1"), K("Plus"), Lit("2"), K("Asterisk"),
                                Lit("3"), K("Semicolon") >>, FALSE)
    /\ Len(program) = 1
    /\ program[1].node_type = "ExprStmt"
    /\ program[1].children[1].value = Some("+")
    /\ program[1].children[1].children[1].value = Some("1")
    /\ program[1].children[1].children[2].value = Some("*")
    /\ program[1].children[1].children[2].children[1].value = Some("2")
    /\ program[1].children[1].children[2].children[2].value = Some("3")

AssignmentTargets == { "IdentifierExpr", "MemberExpr", "IndexExpr" }

\* An assignment node has a valid target on its left and the whole rest of the
\* expression, further assignments included, on its right; it is the root or
\* the right operand of another assignment.
AssignmentsNestToTheRight(expr) ==
    \A node \in Nodes(expr) :
        /\ IsAssignment(node) => node.children[1].node_type \in AssignmentTargets
        /\ node.node_type \in { "BinaryExpr", "UnaryExpr" } /\ ~IsAssignment(node) =>
              \A i \in 1..Len(node.children) : ~IsAssignment(node.children[i])

\* The parser stands at `lhs = value` where lhs is an equality-level expression
\* that is no valid target and value parses.
AtInvalidAssignment ==
    /\ presult = None
    /\ current <= Len(ptokens)
    /\ parse_equality(ptokens, current).ok
    /\ parse_equality(ptokens, current).node.node_type \notin AssignmentTargets
    /\ check(ptokens, parse_equality(ptokens, current).cur, "Assign")
    /\ parse_assignment(ptokens, parse_equality(ptokens, current).cur + 1).ok

InvalidAssignmentIsAnError ==
    AtInvalidAssignment =>
        /\ program' = program
        /\ errors' = Append(errors,
              ParseError("Gecersiz atama hedefi", "", "",
                         ptokens[parse_equality(ptokens, current).cur].line,
                         ptokens[parse_equality(ptokens, current).cur].column))

\* C6: assignment is right-associative (`a = b = 1` is Assign(a, Assign(b, 1)))
\* and an assignment to anything but an identifier, member or index expression
\* is a parse error naming the invalid target, for which no node is produced.
C6_AssignmentRightAssociativeValidTarget ==
    /\ [](\A expr \in ExpressionStatements :
              YieldsItsTokens(expr) /\ AssignmentsNestToTheRight(expr))
    /\ [][InvalidAssignmentIsAnError]_vars

\* `a = b = 1;` has been parsed as Assign(a, Assign(b, 1)).
C6_Witness ==
    /\ ptokens = ParserInput(<< Id("a"), K("Assign"), Id("b"), K("Assign"), Lit("1"),
                                K("Semicolon") >>, FALSE)
    /\ Len(program) = 1
    /\ program[1].children[1].value = Some("=")
    /\ program[1].children[1].children[1].node_type = "IdentifierExpr"
    /\ program[1].children[1].children[1].value = Some("a")
    /\ program[1].children[1].children[2].value = Some("=")
    /\ program[1].children[1].children[2].children[1].value = Some("b")
    /\ program[1].children[1].children[2].children[2].value = Some("1")

(***************************************************************************)
(* Properties of the symbol table                                          *)
(***************************************************************************)
\* The scope stack holds a scope and its bottom one is the Global scope, at
\* level 0, that SymbolTable::new pushed.
ScopeStackRooted ==
    /\ Len(symbol_table.scopes) >= 1
    /\ symbol_table.scopes[1].scope_type = "Global"
    /\ symbol_table.scopes[1].level = 0

\* exit_scope called with the Global scope alone on the stack pops nothing,
\* returns None and leaves the table as it was.
ExitAtGlobalPopsNothing ==
    ExitScope /\ Len(symbol_table.scopes) = 1
        => /\ symbol_table' = symbol_table
           /\ table_result' = Returned_by("exit_scope", None)

\* C10: after any sequence of enter_scope, exit_scope and define calls the scope
\* stack is non-empty and its bottom entry is the Global scope made at
\* construction; exit_scope with only the Global scope left pops nothing,
\* returns None and leaves the whole table unchanged.
C10_ScopeStackRootedAtGlobal ==
    [](ScopeStackRooted) /\ [][ExitAtGlobalPopsNothing]_vars

\* exit_scope has just returned None on a table whose Global scope holds a
\* definition.
C10_Witness ==
    /\ table_result = Returned_by("exit_scope", None)
    /\ Len(symbol_table.scopes) = 1
    /\ "x" \in DOMAIN symbol_table.scopes[1].symbols

\* The scopes of the stack that hold `name`.
Holding(name) ==
    { i \in 1..Len(symbol_table.scopes) : name \in DOMAIN symbol_table.scopes[i].symbols }

DefinesNamed(name) ==
    DefineVarNamed(name) \/ DefineVariableNamed(name) \/ DefineFunctionNamed(name)

\* The name is taken in the innermost scope: Redefinition, whose message gives
\* the position of the declaration already there, and the table stays.
RedefinitionRefused(name) ==
    /\ ~table_result'.returned.ok
    /\ table_result'.returned.err.error_type = "Redefinition"
    /\ table_result'.returned.err.detail[1] = name
    /\ table_result'.returned.err.detail[3] = Last(symbol_table.scopes).symbols[name].line
    /\ table_result'.returned.err.detail[4] =
          Last(symbol_table.scopes).symbols[name].column
    /\ symbol_table' = symbol_table

\* The name is free in the innermost scope: the symbol goes into that scope at
\* its level and every other symbol of every scope stays.
DefinedInnermost(name) ==
    /\ table_result'.returned.ok
    /\ Len(symbol_table'.scopes) = Len(symbol_table.scopes)
    /\ Front(symbol_table'.scopes) = Front(symbol_table.scopes)
    /\ DOMAIN Last(symbol_table'.scopes).symbols
          = DOMAIN Last(symbol_table.scopes).symbols \cup { name }
    /\ \A other \in DOMAIN Last(symbol_table.scopes).symbols :
          Last(symbol_table'.scopes).symbols[other]
              = Last(symbol_table.scopes).symbols[other]
    /\ Last(symbol_table'.scopes).symbols[name].name = name
    /\ Last(symbol_table'.scopes).symbols[name].scope_level
          = Len(symbol_table.scopes) - 1

DefineInnermostOnly ==
    \A name \in TableNames :
       DefinesNamed(name)
          => IF Len(symbol_table.scopes) \in Holding(name)
             THEN RedefinitionRefused(name)
             ELSE DefinedInnermost(name)

\* C11: define_symbol inserts into the innermost scope only; a name already in
\* that scope gives a Redefinition diagnostic carrying the position of the
\* original declaration and leaves the table unchanged; a name held only by
\* enclosing scopes is defined (shadowing) and those scopes stay as they were.
C11_DefineInnermostOrRedefinition == [][DefineInnermostOnly]_vars

\* A definition has just been refused in an inner scope that shadows the
\* Global scope's symbol of the same name, declared at another position.
C11_Witness ==
    /\ table_result.call \in { "define_var", "define_variable", "define_function" }
    /\ ~table_result.returned.ok
    /\ Len(symbol_table.scopes) = 2
    /\ Holding("x") = { 1, 2 }
    /\ symbol_table.scopes[2].symbols["x"].line # table_result.returned.err.line
    /\ symbol_table.scopes[2].symbols["x"].line # symbol_table.scopes[1].symbols["x"].line

\* The largest of a non-empty set of scope indices.
Greatest(indices) == CHOOSE i \in indices : \A j \in indices : j <= i

UndefinedVariable(result) ==
    ~result.ok /\ result.err.error_type = "UndefinedVariable"

\* The table after the step is the table before it but for one flag of the
\* symbol bound to `name` in the scope of index `at`.
OnlyFlagSet(name, at, flag) ==
    /\ Len(symbol_table'.scopes) = Len(symbol_table.scopes)
    /\ symbol_table'.current_function = symbol_table.current_function
    /\ symbol_table'.current_struct = symbol_table.current_struct
    /\ \A i \in 1..Len(symbol_table.scopes) :
          /\ symbol_table'.scopes[i].level = symbol_table.scopes[i].level
          /\ symbol_table'.scopes[i].scope_type = symbol_table.scopes[i].scope_type
          /\ DOMAIN symbol_table'.scopes[i].symbols = DOMAIN symbol_table.scopes[i].symbols
          /\ \A other \in DOMAIN symbol_table.scopes[i].symbols :
                symbol_table'.scopes[i].symbols[other]
                    = IF i = at /\ other = name
                      THEN IF flag = "is_used"
                           THEN [symbol_table.scopes[i].symbols[other]
                                    EXCEPT !.is_used = TRUE]
                           ELSE [symbol_table.scopes[i].symbols[other]
                                    EXCEPT !.is_initialized = TRUE]
                      ELSE symbol_table.scopes[i].symbols[other]

ResolveSelectsInnermost(name) ==
    ResolveNamed(name)
       => IF Holding(name) = { } THEN UndefinedVariable(table_result'.returned)
          ELSE /\ table_result'.returned.ok
               /\ table_result'.returned.value
                     = symbol_table.scopes[Greatest(Holding(name))].symbols[name]

MarkSelectsInnermost(name) ==
    /\ MarkUsedNamed(name)
          => IF Holding(name) = { }
             THEN UndefinedVariable(table_result'.returned) /\ symbol_table' = symbol_table
             ELSE /\ table_result'.returned.ok
                  /\ OnlyFlagSet(name, Greatest(Holding(name)), "is_used")
    /\ MarkInitializedNamed(name)
          => IF Holding(name) = { }
             THEN UndefinedVariable(table_result'.returned) /\ symbol_table' = symbol_table
             ELSE /\ table_result'.returned.ok
                  /\ OnlyFlagSet(name, Greatest(Holding(name)), "is_initialized")

\* C12: resolve, mark_used and mark_initialized all select the symbol bound to
\* the name in the innermost scope that holds it: resolve returns it, the marks
\* set only its flag, and all three fail with UndefinedVariable and leave the
\* table unchanged when no scope on the stack holds the name.
C12_InnermostSymbolSelected ==
    [][\A name \in TableNames :
          ResolveSelectsInnermost(name) /\ MarkSelectsInnermost(name)]_vars

\* mark_initialized has just set the flag of the symbol of the middle scope of
\* three, with the Global scope's symbol of the same name left uninitialized and
\* the innermost scope not holding the name.
C12_Witness ==
    /\ table_result = Returned_by("mark_initialized", SemanticOk(None))
    /\ Len(symbol_table.scopes) = 3
    /\ Holding("x") = { 1, 2 }
    /\ symbol_table.scopes[2].symbols["x"].is_initialized
    /\ ~symbol_table.scopes[1].symbols["x"].is_initialized
    /\ symbol_table.scopes[2].symbols["x"].kind = "Variable"

(***************************************************************************)
(* Properties of the analyzer                                              *)
(***************************************************************************)
\* `let NAME: annotation = LITERAL;` with a literal of the given token type.
AnnotatedLiteral(node, annotation, literal) ==
    /\ node.node_type = "VarDecl"
    /\ Len(node.children) = 2
    /\ node.children[1].node_type = "TypeAnnotation"
    /\ node.children[1].value = Some(annotation)
    /\ node.children[2].node_type = "LiteralExpr"
    /\ node.children[2].token[1].token_type = literal

\* The errors the step has pushed.
ErrorsAdded ==
    SubSeq(analyzer'.errors, Len(analyzer.errors) + 1, Len(analyzer'.errors))

\* The declaration visit_program hands to visit_node next names a variable
\* the current scope does not hold yet.
DeclaresNewName ==
    ast.children[visited + 1].value[1]
        \notin DOMAIN Last(analyzer.symbol_table.scopes).symbols

WideningAccepted ==
    /\ AnnotatedLiteral(ast.children[visited + 1], "float", "IntLiteral")
    /\ DeclaresNewName
    => ErrorsAdded = << >>

NarrowingRejected ==
    AnnotatedLiteral(ast.children[visited + 1], "int", "FloatLiteral")
    => \E i \in 1..Len(ErrorsAdded) : ErrorsAdded[i].error_type = "TypeMismatch"

\* C2: a declaration with an annotation and an initializer accepts widening and
\* rejects narrowing: visiting `let y: float = 5;` adds no diagnostic and
\* visiting `let z: int = 5.0;` adds a TypeMismatch.
C2_WideningAcceptedNarrowingRejected ==
    [][VisitChild => WideningAccepted /\ NarrowingRejected]_vars

(***************************************************************************)
(* The entry point                                                         *)
(***************************************************************************)
EntryPointMessages ==
    { "'main' fonksiyonu tanimlanmamis", "'main' bir fonksiyon olmalidir" }

EntryPointDiagnostic(error) ==
    error.message \in EntryPointMessages /\ ~error.is_warning

\* The program declares a function `main` among its top-level declarations.
DeclaresGlobalMain(node) ==
    \E i \in 1..Len(node.children) :
        /\ node.children[i].node_type = "FuncDecl"
        /\ node.children[i].value = Some("main")

\* The Global scope of the table holds a function `main`.
HoldsGlobalMain(table) ==
    /\ "main" \in DOMAIN table.scopes[1].symbols
    /\ table.scopes[1].symbols["main"].kind = "Function"

\* The end of visit_program adds nothing when the Global scope holds a function
\* `main` and one entry-point diagnostic when it does not.
EntryPointChecked ==
    IF HoldsGlobalMain(analyzer.symbol_table)
    THEN ErrorsAdded = << >>
    ELSE Len(ErrorsAdded) = 1 /\ EntryPointDiagnostic(ErrorsAdded[1])

\* analyze on a program with no top-level function `main` returns a
\* diagnostic that is not a warning.
NoGlobalMainFails ==
    ~DeclaresGlobalMain(ast)
    => /\ \E i \in 1..Len(Last(analysis')) : ~Last(analysis')[i].is_warning
       /\ \E i \in 1..Len(Last(analysis')) : EntryPointDiagnostic(Last(analysis')[i])

\* C13: a program that defines no function `main` at Global scope fails the
\* analysis: analyze returns a diagnostic that is not a warning, also when
\* `main` is declared only in a module, an impl, a struct or a block or is a
\* Global variable. With a function `main` in the Global scope the end of
\* visit_program adds no entry-point diagnostic.
C13_EntryPointRequired ==
    [][/\ VisitProgramReturn => EntryPointChecked
       /\ AnalyzeReturn => NoGlobalMainFails]_vars

\* `mod m { fn main() { } }` analyzed: the entry-point diagnostic is returned.
C13_Witness ==
    /\ position = "returned"
    /\ Len(ast.children) = 1
    /\ ast.children[1].node_type = "ModDecl"
    /\ Len(ast.children[1].children) = 1
    /\ ast.children[1].children[1].node_type = "FuncDecl"
    /\ ast.children[1].children[1].value = Some("main")
    /\ \E i \in 1..Len(Last(analysis)) : EntryPointDiagnostic(Last(analysis)[i])

(***************************************************************************)
(* Assignment and mutability                                               *)
(***************************************************************************)
\* `NAME = LITERAL;`
AssignsLiteral(node) ==
    /\ node.node_type = "ExprStmt"
    /\ Len(node.children) = 1
    /\ node.children[1].node_type = "BinaryExpr"
    /\ node.children[1].value = Some("=")
    /\ node.children[1].children[1].node_type = "IdentifierExpr"
    /\ node.children[1].children[2].node_type = "LiteralExpr"

AssignedName(node) == node.children[1].children[1].value[1]

LiteralType(node) ==
    IF node.children[1].children[2].token[1].token_type = "IntLiteral"
    THEN Type("Int") ELSE Type("Float")

\* The assignment to `symbol`, found by resolve before the step, is refused
\* when the symbol is not mutable; when it is a mutable variable and its type
\* is compatible with the value's the step adds nothing and the variable is
\* initialized afterwards.
AssignmentChecked(node, symbol) ==
    /\ ~symbol.is_mutable
       => \E i \in 1..Len(ErrorsAdded) : ErrorsAdded[i].message = "degistirilemez (mut degil)"
    /\ /\ symbol.is_mutable
       /\ symbol.kind = "Variable"
       /\ is_compatible_with(symbol.symbol_type, LiteralType(node))
       => /\ ErrorsAdded = << >>
          /\ resolve(analyzer'.symbol_table, symbol.name).value
                = [symbol EXCEPT !.is_used = TRUE, !.is_initialized = TRUE]

MutabilityEnforced ==
    /\ AssignsLiteral(ast.children[visited + 1])
    /\ resolve(analyzer.symbol_table, AssignedName(ast.children[visited + 1])).ok
    => AssignmentChecked(ast.children[visited + 1],
                         resolve(analyzer.symbol_table,
                                 AssignedName(ast.children[visited + 1])).value)

C14_WitnessImmutable ==
    /\ position = "visit_program"
    /\ Len(ast.children) = 2
    /\ visited = 2
    /\ AssignsLiteral(ast.children[2])
    /\ "x" \in DOMAIN analyzer.symbol_table.scopes[1].symbols
    /\ ~analyzer.symbol_table.scopes[1].symbols["x"].is_mutable
    /\ \E i \in 1..Len(analyzer.errors) :
          analyzer.errors[i].message = "degistirilemez (mut degil)"

(***************************************************************************)
(* The closing passes                                                      *)
(***************************************************************************)
UnusedDiagnostic(error) == error.message = "tanimlandi fakat hic kullanilmadi"

UninitializedDiagnostic(error) ==
    error.message = "degiskeni kullanilmadan once baslatilmamis"

\* Every diagnostic check_unused_variables pushes has its warning flag set.
UnusedAreWarnings ==
    \A i \in 1..Len(ErrorsAdded) : UnusedDiagnostic(ErrorsAdded[i]) /\ ErrorsAdded[i].is_warning

\* Every diagnostic check_uninitialized_variables pushes is an error.
UninitializedAreErrors ==
    \A i \in 1..Len(ErrorsAdded) :
        UninitializedDiagnostic(ErrorsAdded[i]) /\ ~ErrorsAdded[i].is_warning

\* analyze_with_reports accepts a run whose diagnostics are all unused-symbol
\* ones.
OnlyUnusedAccepted ==
    (\A i \in 1..Len(Last(analysis)) : UnusedDiagnostic(Last(analysis)[i]))
    => report'[1].success

\* C15: the diagnostics of the closing unused-symbol pass are warnings, each
\* with its warning flag set, so that analyze_with_reports returns success for
\* a program whose only diagnostics are unused-symbol ones; the diagnostics of
\* the uninitialized-variable pass are errors.
C15_UnusedDiagnosticsAreWarnings ==
    [][/\ CheckUnusedVariables => UnusedAreWarnings
       /\ CheckUninitializedVariables => UninitializedAreErrors
       /\ AnalyzeWithReportsReturn => OnlyUnusedAccepted]_vars

\* The acceptance alone: success for a run with unused-symbol diagnostics only.
C15_OnlyUnusedAccepted ==
    [][AnalyzeWithReportsReturn => OnlyUnusedAccepted]_vars

\* `fn main() { } let x = 5;` reported: one unused-symbol diagnostic and no
\* success.
C15_RejectedForUnused ==
    /\ position = "reported"
    /\ DeclaresGlobalMain(ast)
    /\ Len(report[1].errors) = 1
    /\ UnusedDiagnostic(report[1].errors[1])
    /\ ~report[1].errors[1].is_warning
    /\ ~report[1].success

\* The symbols of every scope of the table.
SymbolsOf(table) ==
    UNION { { table.scopes[i].symbols[name] : name \in DOMAIN table.scopes[i].symbols }
          : i \in 1..Len(table.scopes) }

\* Name and kind of the symbols the diagnostics pushed by the step are about.
UnusedNamed == { ErrorsAdded[i].detail : i \in 1..Len(ErrorsAdded) }

\* The symbols check_unused_variables is to report: never marked used and not
\* the function `main`.
NeverUsed(table) ==
    { symbol \in SymbolsOf(table) :
        ~symbol.is_used /\ ~(symbol.kind = "Function" /\ symbol.name = "main") }

EveryUnusedReported ==
    /\ \A i \in 1..Len(ErrorsAdded) : UnusedDiagnostic(ErrorsAdded[i])
    /\ UnusedNamed
          = { << symbol.name, symbol.kind >> : symbol \in NeverUsed(analyzer.symbol_table) }

\* C16: the closing unused-symbol pass reports every symbol still in the table
\* whose used flag was never set, the function `main` excepted, and no symbol
\* that was marked used: a Global function other than `main` that is never
\* called is reported.
C16_EveryUnusedSymbolReported ==
    [][CheckUnusedVariables => EveryUnusedReported]_vars

\* `fn main() { } fn f() { }` analyzed: f is in the Global scope, was never
\* marked used, and no diagnostic is returned.
C16_UncalledFunctionUnreported ==
    /\ position = "returned"
    /\ DeclaresGlobalMain(ast)
    /\ "f" \in DOMAIN analyzer.symbol_table.scopes[1].symbols
    /\ analyzer.symbol_table.scopes[1].symbols["f"].kind = "Function"
    /\ ~analyzer.symbol_table.scopes[1].symbols["f"].is_used
    /\ Last(analysis) = << >>

(***************************************************************************)
(* reset and a second run                                                  *)
(***************************************************************************)
Diagnostics(returned) == { returned[i] : i \in 1..Len(returned) }

\* reset leaves the analyzer as SemanticAnalyzer::new builds it.
ResetGivesNew ==
    /\ analyzer' = SemanticAnalyzer_new
    /\ analyzer'.symbol_table.scopes = << Scope(0, "Global") >>
    /\ analyzer'.current_function_return_type = None
    /\ ~analyzer'.in_loop
    /\ analyzer'.errors = << >>

\* The run that returns gives the diagnostics of every run before it.
SameDiagnostics ==
    \A k \in 1..Len(analysis) : Diagnostics(analysis[k]) = Diagnostics(analyzer.errors)

\* C17: analyze run again on the same AST after reset returns the same set of
\* diagnostics as the run before, and reset leaves the analyzer as a newly
\* constructed one: a table with only the empty Global scope, no current
\* function return type, in_loop false and no diagnostics.
C17_ResetThenSameDiagnostics ==
    [][/\ Reset => ResetGivesNew
       /\ AnalyzeReturn => SameDiagnostics]_vars

\* Two runs with a reset between them have returned the same two diagnostics,
\* in two different orders.
C17_Witness ==
    /\ position = "returned"
    /\ Len(analysis) = 2
    /\ Len(analysis[1]) >= 2
    /\ analysis[1] # analysis[2]
    /\ Diagnostics(analysis[1]) = Diagnostics(analysis[2])

(***************************************************************************)
(* Properties of the types                                                 *)
(***************************************************************************)
\* The relation of compatibility as it is specified: the least relation that
\* holds of equal types, of Any on either side, of Null and an Optional, of Int
\* and Float, of an Optional and a type its inner type is compatible with, of
\* a type and an Optional whose inner type it is compatible with, and of two
\* Refs, two Arrays or two Functions of as many parameters that are compatible
\* part by part.
RECURSIVE Compatible(_, _)
Compatible(a, b) ==
    \/ a = b
    \/ a.tag = "Any" \/ b.tag = "Any"
    \/ a.tag = "Null" /\ b.tag = "Optional"
    \/ a.tag = "Int" /\ b.tag = "Float"
    \/ a.tag = "Optional" /\ Compatible(a.args[1], b)
    \/ b.tag = "Optional" /\ Compatible(a, b.args[1])
    \/ a.tag = "Ref" /\ b.tag = "Ref" /\ Compatible(a.args[1], b.args[1])
    \/ a.tag = "Array" /\ b.tag = "Array" /\ Compatible(a.args[1], b.args[1])
    \/ /\ a.tag = "Function" /\ b.tag = "Function"
       /\ Len(a.args) = Len(b.args)
       /\ Compatible(a.ret[1], b.ret[1])
       /\ \A i \in 1..Len(a.args) : Compatible(a.args[i], b.args[i])

TypeCallReturned(call) == type_result # None /\ type_result[1].call = call

C18_WitnessNarrowing ==
    /\ TypeCallReturned("is_compatible_with")
    /\ operands = [self |-> Type("Float"), other |-> Type("Int")]
    /\ type_result[1].returned = FALSE

\* The result is a TypeMismatch that names the operator and both types.
MismatchNaming(result, operator, a, b) ==
    /\ ~result.ok
    /\ result.err.error_type = "TypeMismatch"
    /\ result.err.detail = << operator, a, b >>

\* One operand is a TypeParameter, the other Int, Float or String, and the
\* operator one of + - * /: the result is the other operand's type.
TypeParameterArithmetic(a, b, operator) ==
    /\ operator \in { "+", "-", "*", "/" }
    /\ \/ a.tag = "TypeParameter" /\ b \in { Type("Int"), Type("Float"), Type("String") }
       \/ b.tag = "TypeParameter" /\ a \in { Type("Int"), Type("Float"), Type("String") }

\* What the claim gives for (a, b, operator); type_parameters tells whether a
\* TypeParameter operand is provided for.
ArithmeticSpecified(a, b, operator, result, type_parameters) ==
    IF a = Type("Int") /\ b = Type("Int") THEN result = SemanticOk(Type("Int"))
    ELSE IF a \in { Type("Int"), Type("Float") } /\ b \in { Type("Int"), Type("Float") }
    THEN result = SemanticOk(Type("Float"))
    ELSE IF a = Type("String") /\ b = Type("String") /\ operator = "+"
    THEN result = SemanticOk(Type("String"))
    ELSE IF a = Type("Any") \/ b = Type("Any") THEN result.ok
    ELSE IF type_parameters /\ TypeParameterArithmetic(a, b, operator)
    THEN result = SemanticOk(IF a.tag = "TypeParameter" THEN b ELSE a)
    ELSE MismatchNaming(result, operator, a, b)

\* C19: check_arithmetic_compatible(a, b, op) for op among + - * / % returns
\* Int for (Int, Int), Float for (Float, Float) and for Int with Float in either
\* order, String for (String, String) only when op is `+`, succeeds when either
\* operand is Any, and for every other pair fails with a TypeMismatch naming
\* the operator and both types.
C19_ArithmeticAsSpecified ==
    TypeCallReturned("check_arithmetic_compatible")
    => ArithmeticSpecified(operands.self, operands.other, type_result[1].operator,
                           type_result[1].returned, FALSE)

\* C19 as amended: as above, and with one operand a TypeParameter and the
\* other Int, Float or String the check succeeds under + - * / with the other
\* operand's type; every other pair fails with the TypeMismatch.
C19_ArithmeticWithTypeParameters ==
    TypeCallReturned("check_arithmetic_compatible")
    => ArithmeticSpecified(operands.self, operands.other, type_result[1].operator,
                           type_result[1].returned, TRUE)

\* check_arithmetic_compatible has returned Int for (TypeParameter P, Int)
\* under `+`.
C19_Witness ==
    /\ TypeCallReturned("check_arithmetic_compatible")
    /\ operands = [self |-> TypeParameter("P"), other |-> Type("Int")]
    /\ type_result[1].operator = "+"
    /\ type_result[1].returned = SemanticOk(Type("Int"))

\* Each of the two operands can be assigned from the other.
AssignableToEachOther(a, b) ==
    can_assign_from(a, b).ok /\ can_assign_from(b, a).ok

OrderedTogether(a, b) ==
    \/ a \in { Type("Int"), Type("Float") } /\ b \in { Type("Int"), Type("Float") }
    \/ a = Type("String") /\ b = Type("String")

\* What the claim gives for the comparison of a and b under the operator.
ComparisonSpecified(a, b, operator, result) ==
    /\ operator \in { "==", "!=" } => (result.ok <=> AssignableToEachOther(a, b))
    /\ operator \in { "<", ">", "<=", ">=" } => (result.ok <=> OrderedTogether(a, b))
    /\ ~result.ok => result.err.error_type = "TypeMismatch"

\* The comparison of the operands the other way round is accepted or refused
\* as this one was.
SwapKeepsAcceptance(a, b, operator, result) ==
    operator \in { "==", "!=" }
    => result.ok = check_comparison_compatible(b, a, operator).ok

\* C20: check_comparison_compatible succeeds for `==` and `!=` exactly when the
\* operands are assignable to each other, so that swapping the operands never
\* changes whether an equality comparison is accepted; for `<`, `>`, `<=` and
\* `>=` it succeeds only when both operands are numeric or both are String,
\* and it fails with a TypeMismatch otherwise.
C20_ComparisonAsSpecified ==
    TypeCallReturned("check_comparison_compatible")
    => /\ ComparisonSpecified(operands.self, operands.other, type_result[1].operator,
                              type_result[1].returned)
       /\ SwapKeepsAcceptance(operands.self, operands.other, type_result[1].operator,
                              type_result[1].returned)

\* The symmetry alone, on operands that are not Any, TypeParameter or wrapped.
C20_EqualitySymmetricOnNumbers ==
    /\ TypeCallReturned("check_comparison_compatible")
    /\ operands.self \in { Type("Int"), Type("Float") }
    /\ operands.other \in { Type("Int"), Type("Float") }
    => SwapKeepsAcceptance(operands.self, operands.other, type_result[1].operator,
                           type_result[1].returned)

\* `==` on (Float, Int) has been refused; on (Int, Float) it is accepted.
C20_FloatEqualsIntRefused ==
    /\ TypeCallReturned("check_comparison_compatible")
    /\ operands = [self |-> Type("Float"), other |-> Type("Int")]
    /\ type_result[1].operator = "=="
    /\ ~type_result[1].returned.ok
    /\ check_comparison_compatible(Type("Int"), Type("Float"), "==").ok

(***************************************************************************)
(* The return type of the current function                                 *)
(***************************************************************************)
\* `return LITERAL;` with a literal of the given token type.
ReturnOfLiteral(node, literal) ==
    /\ node.node_type = "ReturnStmt"
    /\ Len(node.children) = 1
    /\ node.children[1].node_type = "LiteralExpr"
    /\ node.children[1].token[1].token_type = literal

\* `fn NAME() -> annotation { return LITERAL; }`
ReturnsLiteral(node, annotation, literal) ==
    /\ node.node_type = "FuncDecl"
    /\ Len(node.children) = 2
    /\ node.children[1].node_type = "TypeAnnotation"
    /\ node.children[1].value = Some(annotation)
    /\ node.children[2].node_type = "BlockStmt"
    /\ Len(node.children[2].children) = 1
    /\ ReturnOfLiteral(node.children[2].children[1], literal)

\* `fn NAME() -> outer { fn NAME() -> inner { } return LITERAL; }`
ReturnsAfterNested(node, outer, inner, literal) ==
    /\ node.node_type = "FuncDecl"
    /\ Len(node.children) = 2
    /\ node.children[1].value = Some(outer)
    /\ node.children[2].node_type = "BlockStmt"
    /\ Len(node.children[2].children) = 2
    /\ node.children[2].children[1].node_type = "FuncDecl"
    /\ node.children[2].children[1].children[1].value = Some(inner)
    /\ ReturnOfLiteral(node.children[2].children[2], literal)

InvalidReturnAdded ==
    \E i \in 1..Len(ErrorsAdded) : ErrorsAdded[i].error_type = "InvalidReturn"

\* The slot is None before and after every visit of a top-level node, and a
\* return at top level adds InvalidReturn.
SlotNoneAtTopLevel ==
    /\ analyzer.current_function_return_type = None
    /\ analyzer'.current_function_return_type = None
    /\ ast.children[visited + 1].node_type = "ReturnStmt" => InvalidReturnAdded

\* The value returned after a nested function is checked against the outer
\* function's return type, whatever the inner one: a value of the outer type
\* adds no InvalidReturn.
SlotRestoredAfterNested ==
    \A inner \in { "int", "float" } :
        /\ ReturnsAfterNested(ast.children[visited + 1], "int", inner, "IntLiteral")
           => ~InvalidReturnAdded
        /\ ReturnsAfterNested(ast.children[visited + 1], "float", inner, "FloatLiteral")
           => ~InvalidReturnAdded

\* Returning an Int from `-> float` adds no InvalidReturn; returning a Float
\* from `-> int` adds one.
ReturnWidens ==
    /\ ReturnsLiteral(ast.children[visited + 1], "float", "IntLiteral")
       => ~InvalidReturnAdded
    /\ ReturnsLiteral(ast.children[visited + 1], "int", "FloatLiteral")
       => InvalidReturnAdded

\* C21: current_function_return_type is None at top level, holds the declared
\* return type while a function body is visited and is put back afterwards,
\* also after a nested function; a return visited with the slot None adds
\* InvalidReturn, and a return in a function adds it exactly when the value is
\* not assignable to the declared type: an Int from `-> float` adds nothing, a
\* Float from `-> int` adds InvalidReturn.
C21_ReturnCheckedAgainstDeclaredType ==
    [][VisitChild => SlotNoneAtTopLevel /\ SlotRestoredAfterNested /\ ReturnWidens]_vars

\* The slot and its restoring alone.
C21_SlotSavedAndRestored ==
    [][VisitChild => SlotNoneAtTopLevel /\ SlotRestoredAfterNested]_vars

\* `fn f() -> float { return 5; }` visited: InvalidReturn has been added.
C21_IntFromFloatFunctionRefused ==
    /\ position = "visit_program"
    /\ visited = 1
    /\ ReturnsLiteral(ast.children[1], "float", "IntLiteral")
    /\ \E i \in 1..Len(analyzer.errors) : analyzer.errors[i].error_type = "InvalidReturn"

(***************************************************************************)
(* When a declaration is registered                                        *)
(***************************************************************************)
UndefinedAdded ==
    \E i \in 1..Len(ErrorsAdded) : ErrorsAdded[i].error_type = "UndefinedVariable"

\* `CALLEE();` as a statement.
CallOf(node, callee) ==
    /\ node.node_type = "ExprStmt"
    /\ Len(node.children) = 1
    /\ node.children[1].node_type = "CallExpr"
    /\ node.children[1].value = Some(callee)

\* `fn NAME() { NAME(); }`
CallsItself(node) ==
    /\ node.node_type = "FuncDecl"
    /\ Len(node.children) = 1
    /\ node.children[1].node_type = "BlockStmt"
    /\ Len(node.children[1].children) = 1
    /\ CallOf(node.children[1].children[1], node.value[1])

\* `let NAME = NAME;`
InitializedByItself(node) ==
    /\ node.node_type = "VarDecl"
    /\ Len(node.children) = 1
    /\ node.children[1].node_type = "IdentifierExpr"
    /\ node.children[1].value = node.value

\* `{ let NAME = NAME; }`
BlockInitializedByItself(node) ==
    /\ node.node_type = "BlockStmt"
    /\ Len(node.children) = 1
    /\ InitializedByItself(node.children[1])

\* The name the declaration (in the block) declares.
DeclaredIn(node) ==
    IF node.node_type = "BlockStmt" THEN node.children[1].value[1] ELSE node.value[1]

\* A function that calls itself resolves its own name.
FunctionRegisteredBeforeBody ==
    CallsItself(ast.children[visited + 1]) => ~UndefinedAdded

\* `let x = x;` with no x in any scope adds UndefinedVariable; in a block
\* under a Global x it adds none and marks the Global x used.
VariableRegisteredAfterInitializer ==
    /\ /\ \/ InitializedByItself(ast.children[visited + 1])
          \/ BlockInitializedByItself(ast.children[visited + 1])
       /\ ~resolve(analyzer.symbol_table, DeclaredIn(ast.children[visited + 1])).ok
       => UndefinedAdded
    /\ /\ BlockInitializedByItself(ast.children[visited + 1])
       /\ resolve(analyzer.symbol_table, DeclaredIn(ast.children[visited + 1])).ok
       => /\ ~UndefinedAdded
          /\ resolve(analyzer'.symbol_table,
                     DeclaredIn(ast.children[visited + 1])).value
                = [resolve(analyzer.symbol_table,
                           DeclaredIn(ast.children[visited + 1])).value
                      EXCEPT !.is_used = TRUE]

\* C22: a function is registered in the current scope before its body is
\* visited, so a call of the function's own name in its body resolves; a
\* variable is registered only after its initializer has been visited, so
\* `let x = x;` with no x in any enclosing scope adds UndefinedVariable, and
\* with an enclosing x the initializer refers to the enclosing one.
C22_RegisteredBeforeBodyAfterInitializer ==
    [][VisitChild => FunctionRegisteredBeforeBody /\ VariableRegisteredAfterInitializer]_vars

\* `fn f() { f(); }` visited without a diagnostic, f in the Global scope and
\* marked used by its own call.
C22_Witness ==
    /\ position = "visit_program"
    /\ visited = 1
    /\ Len(analysis) = 0
    /\ CallsItself(ast.children[1])
    /\ analyzer.errors = << >>
    /\ "f" \in DOMAIN analyzer.symbol_table.scopes[1].symbols
    /\ analyzer.symbol_table.scopes[1].symbols["f"].is_used

\* `let x = 5; { let x = x; }` visited: the Global x is used, nothing recorded.
C22_WitnessEnclosing ==
    /\ position = "visit_program"
    /\ visited = 2
    /\ Len(analysis) = 0
    /\ BlockInitializedByItself(ast.children[2])
    /\ analyzer.errors = << >>
    /\ analyzer.symbol_table.scopes[1].symbols["x"].is_used

(***************************************************************************)
(* Calls                                                                   *)
(***************************************************************************)
\* `CALLEE(literal, ...);` as a statement.
CallsWithLiterals(node) ==
    /\ node.node_type = "ExprStmt"
    /\ Len(node.children) = 1
    /\ node.children[1].node_type = "CallExpr"
    /\ \A i \in 1..Len(node.children[1].children) :
           node.children[1].children[i].node_type = "LiteralExpr"

CallVisited == ast.children[visited + 1].children[1]

CalleeResolved == resolve(analyzer.symbol_table, CallVisited.value[1])

CalleeIsFunction ==
    /\ CalleeResolved.ok
    /\ CalleeResolved.value.symbol_type.tag = "Function"

ParameterTypes == CalleeResolved.value.symbol_type.args

ArgumentType(i) ==
    IF CallVisited.children[i].token[1].token_type = "IntLiteral"
    THEN Type("Int") ELSE Type("Float")

\* The value of the argument may be assigned to the parameter: the same
\* type, or an Int value for a Float parameter.
ArgumentAssignable(parameter, argument) ==
    \/ parameter = argument
    \/ parameter = Type("Float") /\ argument = Type("Int")

ArgumentMismatches ==
    { ErrorsAdded[i].detail[1] :
        i \in { j \in 1..Len(ErrorsAdded) : ErrorsAdded[j].error_type = "TypeMismatch" } }

\* An unresolved callee, or one that is not a function: one diagnostic, type
\* Error.
NotCallableOneDiagnostic ==
    ~CalleeIsFunction
    => /\ Len(ErrorsAdded) = 1
       /\ visit_node(analyzer, CallVisited).type = Type("Error")

\* A wrong number of arguments: one diagnostic naming both counts, and no
\* TypeMismatch.
ArityOneDiagnostic ==
    CalleeIsFunction /\ Len(CallVisited.children) # Len(ParameterTypes)
    => /\ Len(ErrorsAdded) = 1
       /\ ErrorsAdded[1].message = "Fonksiyon arguman sayisi"
       /\ ErrorsAdded[1].detail
             = << CallVisited.value[1], Len(ParameterTypes), Len(CallVisited.children) >>

\* The right number of arguments: TypeMismatch for exactly the positions
\* whose argument is not assignable to the parameter.
MismatchPerPosition ==
    CalleeIsFunction /\ Len(CallVisited.children) = Len(ParameterTypes)
    => /\ Len(ErrorsAdded) = Cardinality(ArgumentMismatches)
       /\ ArgumentMismatches
             = { i \in 1..Len(ParameterTypes) :
                   ~ArgumentAssignable(ParameterTypes[i], ArgumentType(i)) }

\* C23: a call of an unresolved or non-function name adds one diagnostic and
\* has type Error; a call of a function with the wrong number of arguments
\* adds exactly one diagnostic naming the expected and the actual count and
\* no TypeMismatch; with the right number, a TypeMismatch is added for exactly
\* the positions whose argument is not assignable to the parameter, an Int
\* argument for a Float parameter being accepted.
C23_CallChecked ==
    [][VisitChild /\ CallsWithLiterals(ast.children[visited + 1])
       => NotCallableOneDiagnostic /\ ArityOneDiagnostic /\ MismatchPerPosition]_vars

\* C23 without the per-position part: the diagnostics of a call that cannot
\* be made and of a call with the wrong number of arguments.
C23_CalleeAndArityChecked ==
    [][VisitChild /\ CallsWithLiterals(ast.children[visited + 1])
       => NotCallableOneDiagnostic /\ ArityOneDiagnostic]_vars

\* `fn f(a: float) { } f(5);` has been visited and a TypeMismatch recorded
\* for its argument.
C23_IntForFloatParameterRefused ==
    /\ position = "visit_program"
    /\ visited = 2
    /\ Len(analysis) = 0
    /\ CallsWithLiterals(ast.children[2])
    /\ ast.children[1].node_type = "FuncDecl"
    /\ Len(ast.children[2].children[1].children) = 1
    /\ ast.children[2].children[1].children[1].token[1].token_type = "IntLiteral"
    /\ Len(analyzer.errors) = 1
    /\ analyzer.errors[1].error_type = "TypeMismatch"
    /\ analyzer.errors[1].detail = << 1, Type("Float"), Type("Int") >>

(***************************************************************************)
(* The type of a declared variable                                         *)
(***************************************************************************)
CouldNotInfer == "degiskeninin tipi belirtilmemis ve cikarsanamadi"

CouldNotInferAdded ==
    \E i \in 1..Len(ErrorsAdded) : ErrorsAdded[i].message = CouldNotInfer

\* `let NAME = initializer;` without an annotation.
Unannotated(node) ==
    /\ node.node_type = "VarDecl"
    /\ Len(node.children) = 1
    /\ node.children[1].node_type # "TypeAnnotation"

\* A declaration with an initializer, annotated or not.
Initialized(node) ==
    /\ node.node_type = "VarDecl"
    /\ Len(node.children) >= 1
    /\ node.children[Len(node.children)].node_type # "TypeAnnotation"

InitializerVisited(node) == visit_node(analyzer, node.children[Len(node.children)])

\* An unannotated declaration of a new name takes the type of its initializer.
TypeOfInitializerTaken ==
    /\ Unannotated(ast.children[visited + 1])
    /\ InitializerVisited(ast.children[visited + 1]).type
          \notin { Type("Error"), Type("Unknown") }
    /\ DeclaresNewName
    => resolve(analyzer'.symbol_table, ast.children[visited + 1].value[1]).value.symbol_type
          = InitializerVisited(ast.children[visited + 1]).type

\* With an initializer the declaration never adds 'could not be inferred',
\* and an initializer of type Error leaves the declaration with the
\* diagnostics of the initializer alone.
InitializedIsSilent ==
    Initialized(ast.children[visited + 1])
    => /\ ~CouldNotInferAdded
       /\ InitializerVisited(ast.children[visited + 1]).type = Type("Error")
          /\ DeclaresNewName
          => analyzer'.errors = InitializerVisited(ast.children[visited + 1]).self.errors

\* C24: a declaration without an annotation takes the type of its
\* initializer; 'type not specified and could not be inferred' is raised only
\* when neither an annotation nor an initializer is present; when the
\* initializer has the type Error the declaration adds no diagnostic beyond
\* the one that produced Error.
C24_InferredFromInitializer ==
    [][VisitChild => TypeOfInitializerTaken /\ InitializedIsSilent]_vars

\* C24 without the poisoned initializer: the type of the initializer is taken.
C24_TypeOfInitializerTaken == [][VisitChild => TypeOfInitializerTaken]_vars

\* `let x = x;` with no x declared has been visited: UndefinedVariable from
\* the initializer, then 'could not be inferred' from the declaration.
C24_PoisonedInitializerReportedTwice ==
    /\ position = "visit_program"
    /\ visited = 1
    /\ Len(analysis) = 0
    /\ Unannotated(ast.children[1])
    /\ Len(analyzer.errors) = 2
    /\ analyzer.errors[1].error_type = "UndefinedVariable"
    /\ analyzer.errors[2].message = CouldNotInfer

(***************************************************************************)
(* Scopes entered and left                                                 *)
(***************************************************************************)
RECURSIVE SubtreeOf(_)
SubtreeOf(node) ==
    { node } \cup UNION { SubtreeOf(node.children[i]) : i \in 1..Len(node.children) }

ScopeDepth(self) == Len(self.symbol_table.scopes)

\* The analyzer with one more scope entered.
InScope(self, scope_type) ==
    [self EXCEPT !.symbol_table = enter_scope(@, scope_type)]

\* Visiting the node from within a block leaves as many scopes as there were.
DepthKept(node) ==
    ScopeDepth(visit_node(InScope(analyzer, "Block"), node).self)
       = ScopeDepth(analyzer) + 1

\* The same of the node and of every node below it.
RECURSIVE DepthKeptBelow(_)
DepthKeptBelow(node) ==
    /\ DepthKept(node)
    /\ \A i \in 1..Len(node.children) : DepthKeptBelow(node.children[i])

ScopesBalanced ==
    /\ ScopeDepth(analyzer') = ScopeDepth(analyzer)
    /\ DepthKeptBelow(ast.children[visited + 1])

AtClosingPasses ==
    position \in { "check_unused_variables", "check_uninitialized_variables" }

OnlyGlobalAtClosing ==
    AtClosingPasses
    => /\ ScopeDepth(analyzer) = 1
       /\ analyzer.symbol_table.scopes[1].scope_type = "Global"

\* What a closing pass reports names a symbol of the Global scope.
OnlyGlobalExamined ==
    \A i \in 1..Len(ErrorsAdded) :
        ErrorsAdded[i].detail[1] \in DOMAIN analyzer.symbol_table.scopes[1].symbols

\* C25: scope entry and exit are balanced on every path, the depth after the
\* visit of any node being the depth before it; when the closing passes run
\* the table holds the Global scope only, so the symbols declared in function,
\* block, loop, if, struct, impl and module scopes are not examined by them.
C25_ScopesBalanced ==
    /\ []OnlyGlobalAtClosing
    /\ [][VisitChild => ScopesBalanced]_vars
    /\ [][CheckUnusedVariables \/ CheckUninitializedVariables => OnlyGlobalExamined]_vars

\* The closing passes are reached after a program that declared y in an
\* inner scope only: y is not in the table and nothing was recorded for it.
C25_Witness ==
    /\ position = "check_uninitialized_variables"
    /\ Len(analysis) = 0
    /\ Len(ast.children) = 1
    /\ \E node \in SubtreeOf(ast.children[1]) : node.value = Some("y")
    /\ ScopeDepth(analyzer) = 1
    /\ "y" \notin DOMAIN analyzer.symbol_table.scopes[1].symbols
    /\ \A i \in 1..Len(analyzer.errors) :
          analyzer.errors[i].message # "tanimlandi fakat hic kullanilmadi"

(***************************************************************************)
(* Termination of the parser                                               *)
(***************************************************************************)
\* A turn of the parse_program loop moves the cursor forward, and not past
\* the end of the tokens.
TurnConsumes ==
    /\ current < current'
    /\ current' <= Len(ptokens) + 1

\* What the inner loops parse at each turn (a declaration or statement of a
\* block, an impl or a module, an argument of a call) ends after the token it
\* started on.
LoopBodiesConsume ==
    \A cur \in 1..Len(ptokens) :
        /\ \A declaration \in { parse_declaration(ptokens, cur) } :
               declaration.ok => declaration.cur > cur
        /\ \A argument \in { parse_expression(ptokens, cur) } :
               argument.ok => argument.cur > cur

\* C26: Parser::parse terminates on every finite token sequence: every turn
\* of the parse_program loop consumes at least one token, whether the
\* declaration was parsed or failed and synchronize followed, and what the
\* inner loops parse at each turn consumes a token or fails.  The cursor
\* strictly increases and is bounded by the number of tokens, so the loop
\* has at most that many turns.
C26_ParseTerminates ==
    /\ [][ParseDeclaration \/ ParseRecover => TurnConsumes]_vars
    /\ [](current = 1 /\ presult = None => LoopBodiesConsume)

\* parse has returned its errors after a failure that left the cursor on a
\* keyword synchronize stops at.
C26_Witness ==
    /\ presult # None
    /\ ~presult[1].ok
    /\ Len(ptokens) >= 2
    /\ ptokens[1].token_type = "Let"
    /\ ptokens[2].token_type \in SyncKeywords
    /\ Len(errors) >= 2

(***************************************************************************)
(* Recovery at top level only                                              *)
(***************************************************************************)
RECURSIVE OpenBraces(_, _)
\* The `{` not yet closed among the tokens from..to.
OpenBraces(from, to) ==
    IF from > to \/ from > Len(ptokens) THEN 0
    ELSE OpenBraces(from + 1, to)
           + (CASE ptokens[from].token_type = "LeftBrace" -> 1
                [] ptokens[from].token_type = "RightBrace" -> -1
                [] OTHER -> 0)

\* The declaration of this turn fails on a token inside a body it opened.
FailsInsideBody ==
    /\ ~parse_declaration(ptokens, current).ok
    /\ OpenBraces(current, parse_declaration(ptokens, current).cur - 1) >= 1

\* The failure adds nothing to the Program, is recorded once, and the parser
\* goes on from where synchronize stopped, which may be inside the body.
EnclosingAborted ==
    FailsInsideBody
    => /\ program' = program
       /\ errors' = Append(errors, parse_declaration(ptokens, current).err)
       /\ current' = synchronize(ptokens, parse_declaration(ptokens, current).cur)

IsNestedFailure ==
    \E items \in NestedFailureInputs, with_eof \in BOOLEAN :
        ptokens = ParserInput(items, with_eof)

\* Of `opening let = 1; let y = 2; closing` the Program holds the
\* declaration of y alone, as a top-level declaration.
RestParsedAtTopLevel ==
    presult # None /\ IsNestedFailure
    => /\ Len(program) = 1
       /\ program[1].node_type = "VarDecl"
       /\ program[1].value = Some("y")
       /\ ~presult[1].ok

\* C27: recovery happens at top level only: a statement that fails inside a
\* block, at any depth, aborts every enclosing block, function, impl and
\* module declaration (none is added to the Program), is recorded once by
\* parse_program, and after synchronize the rest of the enclosing body is
\* parsed as top-level declarations.
C27_RecoveryAtTopLevelOnly ==
    /\ [][ParseRecover => EnclosingAborted]_vars
    /\ []RestParsedAtTopLevel

\* `mod m { fn f() { while a { let = 1; let y = 2; } } }` has been parsed:
\* none of the three enclosing declarations is in the Program, y is.
C27_Witness ==
    /\ presult # None
    /\ IsNestedFailure
    /\ ptokens[1].token_type = "Mod"
    /\ Len(program) = 1
    /\ program[1].value = Some("y")
    /\ Len(errors) = 2

(***************************************************************************)
(* A second run without reset                                              *)
(***************************************************************************)
GlobalNames(self) == DOMAIN self.symbol_table.scopes[1].symbols

RedefinitionOf(self, name) ==
    \E i \in 1..Len(self.errors) :
        /\ self.errors[i].error_type = "Redefinition"
        /\ self.errors[i].detail[1] = name

\* analyze empties the diagnostics and keeps the table.
AnalyzeKeepsTable ==
    /\ analyzer'.errors = << >>
    /\ analyzer'.symbol_table = analyzer.symbol_table

\* At the end of a second run every name the first run left in the Global
\* scope has its Redefinition.
SecondRunRedefines ==
    position = "return" /\ Len(analysis) = 1
    => \A name \in GlobalNames(analyzer) : RedefinitionOf(analyzer, name)

\* C28: the symbol table persists across calls of analyze on one analyzer:
\* analyze empties the diagnostics at its start and does not recreate the
\* table, so what it returns are the diagnostics of the current run only, and
\* a second analyze of the same AST without reset reports a Redefinition for
\* each declaration the first run registered in the Global scope.
C28_TablePersistsAcrossRuns ==
    /\ [][Analyze => AnalyzeKeepsTable]_vars
    /\ []SecondRunRedefines

\* A second run has returned Redefinition diagnostics after a first run that
\* returned none.
C28_Witness ==
    /\ Len(analysis) = 2
    /\ analysis[1] = << >>
    /\ GlobalNames(analyzer) # {}
    /\ \A name \in GlobalNames(analyzer) :
          \E i \in 1..Len(analysis[2]) :
              /\ analysis[2][i].error_type = "Redefinition"
              /\ analysis[2][i].detail[1] = name

(***************************************************************************)
(* Parameters and the variables of the body                                *)
(***************************************************************************)
\* `fn NAME(P1: T1, P2: T2) { let V = literal; }`
TwoParametersOneLet(node) ==
    /\ node.node_type = "FuncDecl"
    /\ Len(node.children) = 3
    /\ node.children[1].node_type = "ParamDecl"
    /\ node.children[2].node_type = "ParamDecl"
    /\ node.children[3].node_type = "BlockStmt"
    /\ Len(node.children[3].children) = 1
    /\ node.children[3].children[1].node_type = "VarDecl"

RedefinitionsAdded ==
    { ErrorsAdded[i].detail[1] :
        i \in { j \in 1..Len(ErrorsAdded) : ErrorsAdded[j].error_type = "Redefinition" } }

\* A variable of the body never collides with a parameter; two parameters of
\* one name do.
ParametersShadowed ==
    TwoParametersOneLet(ast.children[visited + 1])
    => RedefinitionsAdded
          = IF ast.children[visited + 1].children[1].value
                  = ast.children[visited + 1].children[2].value
            THEN { ast.children[visited + 1].children[1].value[1] }
            ELSE {}

\* C29: the parameters are defined in the Function scope and the body block
\* pushes a further Block scope, so a `let` at the top of the body with the
\* name of a parameter shadows it without a Redefinition, whereas two
\* parameters of one name produce a Redefinition.
C29_ParametersShadowedNotRedefined == [][VisitChild => ParametersShadowed]_vars

\* `fn f(a: int, b: float) { let a = 5; }` visited with no diagnostic.
C29_Witness ==
    /\ position = "visit_program"
    /\ visited = 1
    /\ Len(analysis) = 0
    /\ TwoParametersOneLet(ast.children[1])
    /\ ast.children[1].children[1].value # ast.children[1].children[2].value
    /\ ast.children[1].children[3].children[1].value = ast.children[1].children[1].value
    /\ analyzer.errors = << >>

\* `fn f(a: int, a: float) { let a = 5; }` visited: one Redefinition.
C29_WitnessSameName ==
    /\ position = "visit_program"
    /\ visited = 1
    /\ Len(analysis) = 0
    /\ TwoParametersOneLet(ast.children[1])
    /\ ast.children[1].children[1].value = ast.children[1].children[2].value
    /\ Len(analyzer.errors) = 1
    /\ analyzer.errors[1].error_type = "Redefinition"

(***************************************************************************)
(* The operator ^                                                          *)
(***************************************************************************)
IsCaret(node) == node.node_type = "BinaryExpr" /\ node.value = Some("^")

\* `L ^ R;` as a statement.
CaretStatement(node) ==
    /\ node.node_type = "ExprStmt"
    /\ Len(node.children) = 1
    /\ IsCaret(node.children[1])

CaretVisited == ast.children[visited + 1].children[1]

LeftVisited == visit_node(analyzer, CaretVisited.children[1])

RightVisited == visit_node(LeftVisited.self, CaretVisited.children[2])

UnknownOperator(error) ==
    /\ error.message = "Bilinmeyen operator"
    /\ error.detail = << "^" >>

\* With operands of types other than Error `^` adds 'unknown operator' once;
\* with an operand of type Error it adds nothing; its type is Error.
CaretRefused ==
    CaretStatement(ast.children[visited + 1])
    => /\ visit_node(analyzer, CaretVisited).type = Type("Error")
       /\ IF LeftVisited.type = Type("Error") \/ RightVisited.type = Type("Error")
          THEN analyzer'.errors = RightVisited.self.errors
          ELSE /\ Len(analyzer'.errors) = Len(RightVisited.self.errors) + 1
               /\ SubSeq(analyzer'.errors, 1, Len(RightVisited.self.errors))
                     = RightVisited.self.errors
               /\ UnknownOperator(Last(analyzer'.errors))

\* A program that holds `^` anywhere is not accepted.
CaretNeverAccepted ==
    /\ report # None
    /\ \E node \in SubtreeOf(ast) : IsCaret(node)
    => ~report[1].success

\* C30: `^` is accepted by the parser and by no branch of the analyzer: a
\* binary expression with `^` whose operands have types other than Error adds
\* the 'unknown operator' diagnostic and has type Error, so no program that
\* holds `^` passes analysis; with an operand of type Error the expression has
\* type Error and adds no diagnostic.
C30_CaretRefused ==
    /\ [][VisitChild => CaretRefused]_vars
    /\ []CaretNeverAccepted

\* `1 ^ 2.0;` has been analysed: 'unknown operator' among what was returned,
\* the program not accepted.
C30_Witness ==
    /\ report # None
    /\ ~report[1].success
    /\ Len(ast.children) = 1
    /\ CaretStatement(ast.children[1])
    /\ ast.children[1].children[1].children[1].node_type = "LiteralExpr"
    /\ ast.children[1].children[1].children[2].node_type = "LiteralExpr"
    /\ \E i \in 1..Len(report[1].errors) : UnknownOperator(report[1].errors[i])

\* `y ^ 1;` with y not declared has been visited: the diagnostic of y alone.
C30_WitnessPoisoned ==
    /\ position = "visit_program"
    /\ visited = 1
    /\ Len(analysis) = 0
    /\ CaretStatement(ast.children[1])
    /\ ast.children[1].children[1].children[1].node_type = "IdentifierExpr"
    /\ ast.children[1].children[1].children[2].node_type = "LiteralExpr"
    /\ Len(analyzer.errors) = 1
    /\ analyzer.errors[1].error_type = "UndefinedVariable"

====
